---- MODULE Spec2Model ----
(***************************************************************************)
(* A model of agrev: the diff model (internal/diff), the patch             *)
(* reconstruction (internal/tui/apply.go), the interactive session         *)
(* (internal/tui/tui.go), the remote session (internal/api/ws.go), the     *)
(* analysis passes (internal/analysis) and agrev check (internal/cli).     *)
(***************************************************************************)
EXTENDS Integers, Sequences, FiniteSets, TLC

\* ------------------------------------------------------------------ bounds
\* Most files in a diff of a session.
MaxFiles == 3
\* Most connections the server holds at once.
MaxConns == 1
\* Most steps of a loaded agent trace.
MaxTraceSteps == 2
\* Most files in a diff loaded over a connection.
MaxWsFiles == 2
\* Most files in a diff whose patch is reconstructed.
MaxPatchFiles == 2
\* Cap on the summary view's scroll counter, which the code never bounds.
MaxSummaryScroll == 1
\* Most clients connected at once when several review side by side.
MaxClients == 2
\* Most files in the diff such clients load.
MaxClientFiles == 1
\* Most files in a diff that agrev check analyses.
MaxCheckFiles == 2
\* Most findings in a Results value whose MaxRisk is asked.
MaxFindings == 3
\* Most lines in the hunk of a diff given to one pass.
MaxUnitLines == 2
\* Most lines in the hunk of a diff searched for repeated blocks.
MaxDupLines == 5

\* ------------------------------------------------------- model.ReviewDecision
DecisionPending == 0
DecisionApproved == 1
DecisionRejected == 2
DecisionEdited == 3

\* ------------------------------------------------------------ helper: seqs
RECURSIVE SeqSum(_)
SeqSum(s) == IF s = <<>> THEN 0 ELSE Head(s) + SeqSum(Tail(s))

RECURSIVE Flatten(_)
Flatten(ss) == IF ss = <<>> THEN <<>> ELSE Head(ss) \o Flatten(Tail(ss))

RECURSIVE SelectIdx(_, _, _)
\* the indices i (ascending, from k) of s for which keep[i]
SelectIdx(n, keep, k) ==
  IF k > n THEN <<>>
  ELSE (IF keep[k] THEN <<k>> ELSE <<>>) \o SelectIdx(n, keep, k + 1)

\* ------------------------------------------------------- diff text (lines)
\* A diff text is a sequence of text lines.  A line is kept as its literal
\* prefix (k) and the payload that follows it:
\*   "diff"     diff --git a/<a> b/<b>
\*   "index"    index abc..def 100644
\*   "sim"      similarity index NN%
\*   "newmode"  new file mode 100644
\*   "delmode"  deleted file mode 100644
\*   "renfrom"  rename from <a>
\*   "rento"    rename to <a>
\*   "old"      --- <a><b>      (a: the prefix a/ or none, b: the path text)
\*   "new"      +++ <a><b>      (a: the prefix b/ or none, b: the path text)
\*   "hunk"     @@ -h[1],h[2] +h[3],h[4] @@ <a>
\*   "ctx" "add" "del"   a content line, prefix " ", "+", "-", text a
\* A path text is a sequence of pieces (<<"a.go">>, <<>> when empty), so that
\* texts can be joined with \o as the code joins them with Sprintf.
\*   "bin"      Binary files a/<a> and b/<b> differ
TLine(k, a, b, h) == [k |-> k, a |-> a, b |-> b, h |-> h]

devNull == <<"/dev/null">>

OpContext == "ctx"
OpAdd == "add"
OpDelete == "del"


\* ------------------------------------------------ gitdiff: file header parse
\* gitdiff.parseName with dropPrefix = 1 applied to the text <pfx><path>:
\* exactly "/dev/null" is returned untouched; otherwise the first path
\* component is dropped and duplicate slashes collapse, so "a//dev/null"
\* becomes "dev/null".  A directory piece of a path ends in its own slash.
parseName(pfx, path) ==
  IF pfx = <<>> THEN path
  ELSE IF path = devNull THEN <<"dev/null">>
  ELSE path

\* gitdiff.verifyGitHeaderName: TRUE when the header is rejected.
verifyGitHeaderName(parsed, existing, isNull) ==
  \/ existing # <<>> /\ (isNull \/ existing # parsed)
  \/ isNull /\ parsed # devNull

\* A gitdiff.File before any header line was read.
emptyGitFile ==
  [OldName |-> <<>>, NewName |-> <<>>, IsNew |-> FALSE, IsDelete |-> FALSE,
   IsRename |-> FALSE, IsBinary |-> FALSE, TextFragments |-> <<>>]

parseGitHeaderOldName(f, l) ==
  LET name == parseName(l.a, l.b) IN
  IF f.OldName = <<>> /\ ~f.IsNew
  THEN [f |-> [f EXCEPT !.OldName = name], err |-> FALSE]
  ELSE [f |-> f, err |-> verifyGitHeaderName(name, f.OldName, f.IsNew)]

parseGitHeaderNewName(f, l) ==
  LET name == parseName(l.a, l.b) IN
  IF f.NewName = <<>> /\ ~f.IsDelete
  THEN [f |-> [f EXCEPT !.NewName = name], err |-> FALSE]
  ELSE [f |-> f, err |-> verifyGitHeaderName(name, f.NewName, f.IsDelete)]

RECURSIVE parseGitHeaderData(_, _, _)
\* Reads header lines from text[j] on; ends at "@@ -" or at an unknown line.
parseGitHeaderData(f, text, j) ==
  IF j > Len(text) THEN [f |-> f, j |-> j, err |-> FALSE]
  ELSE LET l == text[j] IN
    CASE l.k = "old" ->
           LET r == parseGitHeaderOldName(f, l) IN
           IF r.err THEN [f |-> f, j |-> j, err |-> TRUE]
           ELSE parseGitHeaderData(r.f, text, j + 1)
      [] l.k = "new" ->
           LET r == parseGitHeaderNewName(f, l) IN
           IF r.err THEN [f |-> f, j |-> j, err |-> TRUE]
           ELSE parseGitHeaderData(r.f, text, j + 1)
      [] l.k = "newmode" ->
           parseGitHeaderData([f EXCEPT !.IsNew = TRUE], text, j + 1)
      [] l.k = "delmode" ->
           parseGitHeaderData([f EXCEPT !.IsDelete = TRUE], text, j + 1)
      [] l.k = "renfrom" ->
           parseGitHeaderData([f EXCEPT !.IsRename = TRUE, !.OldName = l.a],
                              text, j + 1)
      [] l.k = "rento" ->
           parseGitHeaderData([f EXCEPT !.IsRename = TRUE, !.NewName = l.a],
                              text, j + 1)
      [] l.k \in {"index", "sim"} -> parseGitHeaderData(f, text, j + 1)
      [] OTHER -> [f |-> f, j |-> j, err |-> FALSE]

\* The end of gitdiff.ParseGitFileHeader: r is what the header lines gave,
\* defaultName the name of the "diff --git" line (empty when its sides differ).
finishGitFileHeader(r, defaultName) ==
  IF r.err THEN [f |-> r.f, j |-> r.j, err |-> TRUE]
  ELSE IF r.f.OldName = <<>> /\ r.f.NewName = <<>>
    THEN [f |-> [r.f EXCEPT !.OldName = defaultName, !.NewName = defaultName],
          j |-> r.j, err |-> defaultName = <<>>]
  ELSE [f |-> r.f, j |-> r.j,
        err |-> \/ r.f.NewName = <<>> /\ ~r.f.IsDelete
                \/ r.f.OldName = <<>> /\ ~r.f.IsNew]

\* gitdiff.ParseGitFileHeader at text[i], a "diff --git" line.
ParseGitFileHeader(text, i) ==
  finishGitFileHeader(parseGitHeaderData(emptyGitFile, text, i + 1),
                      IF text[i].a = text[i].b THEN text[i].a ELSE <<>>)

\* --------------------------------------------------- gitdiff: text fragments
RECURSIVE ParseTextChunkLoop(_, _, _, _, _)
\* The loop of gitdiff.ParseTextChunk: runs while a count is still positive.
ParseTextChunkLoop(text, j, o, n, acc) ==
  IF ~(o > 0 \/ n > 0) \/ j > Len(text)
  THEN [Lines |-> acc, j |-> j, o |-> o, n |-> n, err |-> FALSE]
  ELSE LET l == text[j]
           ln == [Op |-> l.k, Line |-> l.a] IN
    CASE l.k = OpContext ->
           ParseTextChunkLoop(text, j + 1, o - 1, n - 1, Append(acc, ln))
      [] l.k = OpDelete ->
           ParseTextChunkLoop(text, j + 1, o - 1, n, Append(acc, ln))
      [] l.k = OpAdd ->
           ParseTextChunkLoop(text, j + 1, o, n - 1, Append(acc, ln))
      [] OTHER -> [Lines |-> acc, j |-> j, o |-> o, n |-> n, err |-> TRUE]

\* finishTextChunk without the check of the header's counts.
finishTextChunkUncounted(h, c, r, eof) ==
  [frag |-> [OldPosition |-> h[1], OldLines |-> h[2],
             NewPosition |-> h[3], NewLines |-> h[4],
             Comment |-> c, Lines |-> r.Lines],
   j |-> r.j,
   err |-> \/ eof
           \/ r.err
           \/ \A x \in 1..Len(r.Lines) : r.Lines[x].Op = OpContext]

\* The checks that end gitdiff.ParseTextChunk: r is what the loop read for
\* the header h with comment c; nothing after the header, a miscount and a
\* fragment without a change are errors.
finishTextChunk(h, c, r, eof) ==
  [frag |-> [OldPosition |-> h[1], OldLines |-> h[2],
             NewPosition |-> h[3], NewLines |-> h[4],
             Comment |-> c, Lines |-> r.Lines],
   j |-> r.j,
   err |-> \/ eof
           \/ r.err \/ r.o # 0 \/ r.n # 0
           \/ \A x \in 1..Len(r.Lines) : r.Lines[x].Op = OpContext]

\* gitdiff.ParseTextChunk for the fragment whose header is text[i].
ParseTextChunk(text, i) ==
  finishTextChunk(text[i].h, text[i].a,
                  ParseTextChunkLoop(text, i + 1, text[i].h[2], text[i].h[4], <<>>),
                  i + 1 > Len(text))

RECURSIVE ParseTextFragments(_, _, _)
RECURSIVE appendTextFragment(_, _, _)
\* gitdiff.ParseTextFragments: every fragment that follows the header.
ParseTextFragments(f, text, j) ==
  IF j > Len(text) \/ text[j].k # "hunk" THEN [f |-> f, j |-> j, err |-> FALSE]
  ELSE IF (f.IsNew /\ text[j].h[2] > 0) \/ (f.IsDelete /\ text[j].h[4] > 0)
    THEN [f |-> f, j |-> j, err |-> TRUE]
  ELSE appendTextFragment(f, text, ParseTextChunk(text, j))

\* ... its loop body once the chunk r was read
appendTextFragment(f, text, r) ==
  IF r.err THEN [f |-> f, j |-> r.j, err |-> TRUE]
  ELSE ParseTextFragments(
         [f EXCEPT !.TextFragments = Append(@, r.frag)], text, r.j)

\* gitdiff.ParseBinaryFragments, the "Binary files differ" marker only.
ParseBinaryFragments(f, text, j) ==
  IF j <= Len(text) /\ text[j].k = "bin"
  THEN [f |-> [f EXCEPT !.IsBinary = TRUE], j |-> j + 1]
  ELSE [f |-> f, j |-> j]

RECURSIVE gitdiffParse(_, _, _)
RECURSIVE parseFileBody(_, _, _)
RECURSIVE parseFileEnd(_, _, _)
RECURSIVE appendFile(_, _, _)
\* gitdiff.Parse: lines outside a file are skipped, a fragment without a
\* file header is an error.  The texts of the model hold git headers only.
gitdiffParse(text, j, files) ==
  IF j > Len(text) THEN [files |-> files, err |-> FALSE]
  ELSE IF text[j].k = "hunk" THEN [files |-> files, err |-> TRUE]
  ELSE IF text[j].k # "diff" THEN gitdiffParse(text, j + 1, files)
  ELSE parseFileBody(text, ParseGitFileHeader(text, j), files)

\* ... after the file header hd: the text fragments
parseFileBody(text, hd, files) ==
  IF hd.err THEN [files |-> files, err |-> TRUE]
  ELSE parseFileEnd(text, ParseTextFragments(hd.f, text, hd.j), files)

\* ... after the text fragments tf: binary fragments when there was none
parseFileEnd(text, tf, files) ==
  IF tf.err THEN [files |-> files, err |-> TRUE]
  ELSE IF Len(tf.f.TextFragments) > 0 THEN appendFile(text, tf, files)
  ELSE appendFile(text, ParseBinaryFragments(tf.f, text, tf.j), files)

\* ... the file is complete, the next one follows
appendFile(text, r, files) == gitdiffParse(text, r.j, Append(files, r.f))

\* ------------------------------------------------------------ internal/diff
CountOp(frags, op) ==
  SeqSum([i \in 1..Len(frags) |->
            Cardinality({x \in 1..Len(frags[i].Lines) : frags[i].Lines[x].Op = op})])

\* The conversion loop of diff.Parse for one gitdiff.File.
ToFile(f) ==
  [OldName |-> f.OldName, NewName |-> f.NewName,
   IsNew |-> f.IsNew, IsDeleted |-> f.IsDelete,
   IsRenamed |-> f.IsRename, IsBinary |-> f.IsBinary,
   Fragments |-> f.TextFragments,
   AddedLines |-> CountOp(f.TextFragments, OpAdd),
   DeletedLines |-> CountOp(f.TextFragments, OpDelete)]

\* diff.Parse after gitdiff.Parse returned r: (nil, err) when it failed,
\* else the DiffSet.
toDiffSet(r) ==
  IF r.err THEN [err |-> TRUE, Files |-> <<>>]
  ELSE [err |-> FALSE, Files |-> [i \in 1..Len(r.files) |-> ToFile(r.files[i])]]

\* diff.Parse
Parse(raw) == toDiffSet(gitdiffParse(raw, 1, <<>>))

\* File.Name: the display name; a rename shows both names.
Name(f) ==
  IF f.IsRenamed THEN f.OldName \o <<" -> ">> \o f.NewName
  ELSE IF f.IsNew THEN f.NewName
  ELSE IF f.IsDeleted THEN f.OldName
  ELSE IF f.NewName # <<>> THEN f.NewName
  ELSE f.OldName

\* DiffSet.Stats
Stats(files) ==
  [files |-> Len(files),
   added |-> SeqSum([i \in 1..Len(files) |-> files[i].AddedLines]),
   deleted |-> SeqSum([i \in 1..Len(files) |-> files[i].DeletedLines])]


\* ------------------------------------------------------ internal/tui/apply.go
\* The decision a mapping holds for index i (Go's zero value when absent).
DecisionOf(d, i) == IF i \in DOMAIN d THEN d[i] ELSE DecisionPending

\* The 0-based indices of r.Files whose decision is dec, ascending.
FilesWith(r, dec) ==
  SelectIdx(Len(r.Files),
            [k \in 1..Len(r.Files) |-> DecisionOf(r.Decisions, k - 1) = dec], 1)

\* ApprovedFiles that keeps every file not rejected.
ApprovedFilesNotRejected(r) ==
  SelectIdx(Len(r.Files),
            [k \in 1..Len(r.Files) |->
               DecisionOf(r.Decisions, k - 1) # DecisionRejected], 1)

\* ReviewResult.ApprovedFiles (as 1-based positions in r.Files)
ApprovedFiles(r) == FilesWith(r, DecisionApproved)

\* ReviewResult.RejectedFiles
RejectedFiles(r) == FilesWith(r, DecisionRejected)

\* ReviewResult.PendingFiles: no entry in the mapping
PendingFiles(r) ==
  SelectIdx(Len(r.Files),
            [k \in 1..Len(r.Files) |-> (k - 1) \notin DOMAIN r.Decisions], 1)

\* The fragment loop of formatFilePatch.
formatFragment(frag) ==
  <<TLine("hunk", frag.Comment, <<>>,
          <<frag.OldPosition, frag.OldLines, frag.NewPosition, frag.NewLines>>)>>
  \o [x \in 1..Len(frag.Lines) |->
        TLine(frag.Lines[x].Op, frag.Lines[x].Line, <<>>, <<>>)]

\* formatFilePatch: the unified diff of one file.
formatFilePatch(f) ==
  LET oldName == IF f.OldName = <<>> THEN devNull ELSE f.OldName
      newName == IF f.NewName = <<>> THEN devNull ELSE f.NewName
  IN <<TLine("diff", Name(f), Name(f), <<>>)>>
     \o (IF f.IsNew THEN <<TLine("newmode", <<>>, <<>>, <<>>)>>
         ELSE IF f.IsDeleted THEN <<TLine("delmode", <<>>, <<>>, <<>>)>>
         ELSE <<>>)
     \o <<TLine("old", <<"a/">>, oldName, <<>>),
          TLine("new", <<"b/">>, newName, <<>>)>>
     \o Flatten([i \in 1..Len(f.Fragments) |-> formatFragment(f.Fragments[i])])

\* The body of GeneratePatch for the approved positions.
writePatch(files, approved) ==
  IF Len(approved) = 0 THEN <<>>
  ELSE Flatten([k \in 1..Len(approved) |-> formatFilePatch(files[approved[k]])])

\* ReviewResult.GeneratePatch
GeneratePatch(r) == writePatch(r.Files, ApprovedFiles(r))

\* The first line of the commit message: the verb and the name of a single
\* approved file, otherwise the counted clauses joined by ", " with the first
\* letter in upper case.
commitSubject(files, approved) ==
  LET new(k) == files[approved[k]].IsNew
      del(k) == ~new(k) /\ files[approved[k]].IsDeleted
      idx == 1..Len(approved)
      added == Cardinality({k \in idx : new(k)})
      deleted == Cardinality({k \in idx : del(k)})
      modified == Cardinality({k \in idx : ~new(k) /\ ~del(k)})
      part(verb, n) == IF n > 0 THEN <<<<verb, ToString(n), " file(s)">>>> ELSE <<>>
      parts == part("update ", modified) \o part("add ", added)
               \o part("remove ", deleted)
      ToUpper(v) == CASE v = "update " -> "Update " [] v = "add " -> "Add "
                      [] v = "remove " -> "Remove "
      joined == Flatten([k \in 1..Len(parts) |->
                           IF k = 1 THEN <<ToUpper(parts[k][1])>> \o Tail(parts[k])
                           ELSE <<", ">> \o parts[k]])
  IN IF Len(approved) = 1
     THEN <<IF new(1) THEN "Add " ELSE IF del(1) THEN "Remove " ELSE "Update ">>
          \o Name(files[approved[1]])
     ELSE joined

\* The list written under a title: one line "  - name" per file.
commitList(title, files, idx) ==
  <<<<>>, <<title>>>> \o [k \in 1..Len(idx) |-> <<"  - ">> \o Name(files[idx[k]])]

\* GenerateCommitMessage that ends after the first line for a single file.
GenerateCommitMessageOneLine(r) ==
  IF ApprovedFiles(r) = <<>> THEN <<>>
  ELSE IF Len(ApprovedFiles(r)) = 1
       THEN <<commitSubject(r.Files, ApprovedFiles(r))>>
  ELSE <<commitSubject(r.Files, ApprovedFiles(r))>>
       \o commitList("Approved files:", r.Files, ApprovedFiles(r))
       \o (IF RejectedFiles(r) = <<>> THEN <<>>
           ELSE commitList("Rejected files:", r.Files, RejectedFiles(r)))

\* ReviewResult.GenerateCommitMessage: the message as its lines, the text
\* split at its line ends; the empty string has no line.
GenerateCommitMessage(r) ==
  IF ApprovedFiles(r) = <<>> THEN <<>>
  ELSE <<commitSubject(r.Files, ApprovedFiles(r))>>
       \o commitList("Approved files:", r.Files, ApprovedFiles(r))
       \o (IF RejectedFiles(r) = <<>> THEN <<>>
           ELSE commitList("Rejected files:", r.Files, RejectedFiles(r)))

\* ------------------------------------------------- diff texts that git writes
FileNames == <<"a.go", "b.go", "c.go", "d.go">>
RenamedNames == <<"w.go", "x.go", "y.go", "z.go">>

HunkLine(op, ol, np, nl, c) == TLine("hunk", c, <<>>, <<op, ol, np, nl>>)
HunkMod1 == <<HunkLine(1, 2, 1, 2, <<>>), TLine(OpContext, <<"p">>, <<>>, <<>>),
              TLine(OpDelete, <<"q">>, <<>>, <<>>), TLine(OpAdd, <<"r">>, <<>>, <<>>)>>
HunkMod2 == <<HunkLine(7, 1, 7, 2, <<"fn">>), TLine(OpContext, <<"s">>, <<>>, <<>>),
              TLine(OpAdd, <<"t">>, <<>>, <<>>)>>
HunkNew == <<HunkLine(0, 0, 1, 2, <<>>), TLine(OpAdd, <<"u">>, <<>>, <<>>),
             TLine(OpAdd, <<"v">>, <<>>, <<>>)>>
HunkDel == <<HunkLine(1, 1, 0, 0, <<>>), TLine(OpDelete, <<"w">>, <<>>, <<>>)>>

ChangeKinds == {"mod", "mod2", "new", "del", "ren", "renmod", "bin"}

\* What `git diff` writes for the i-th file of a change set, by kind of change.
GitText(kind, i) ==
  LET x == <<FileNames[i]>>
      y == <<RenamedNames[i]>>
      H(k, a, b) == TLine(k, a, b, <<>>)
      E == <<>>
  IN CASE kind = "mod" ->
            <<H("diff", x, x), H("index", E, E), H("old", <<"a/">>, x),
              H("new", <<"b/">>, x)>> \o HunkMod1
       [] kind = "mod2" ->
            <<H("diff", x, x), H("index", E, E), H("old", <<"a/">>, x),
              H("new", <<"b/">>, x)>> \o HunkMod1 \o HunkMod2
       [] kind = "new" ->
            <<H("diff", x, x), H("newmode", E, E), H("index", E, E),
              H("old", E, devNull), H("new", <<"b/">>, x)>> \o HunkNew
       [] kind = "del" ->
            <<H("diff", x, x), H("delmode", E, E), H("index", E, E),
              H("old", <<"a/">>, x), H("new", E, devNull)>> \o HunkDel
       [] kind = "ren" ->
            <<H("diff", x, y), H("sim", E, E), H("renfrom", x, E),
              H("rento", y, E)>>
       [] kind = "renmod" ->
            <<H("diff", x, y), H("sim", E, E), H("renfrom", x, E),
              H("rento", y, E), H("index", E, E), H("old", <<"a/">>, x),
              H("new", <<"b/">>, y)>> \o HunkMod1
       [] kind = "bin" ->
            <<H("diff", x, x), H("index", E, E), H("bin", x, x)>>

\* The diff text of a change set: one file per kind, in order.
GitDiff(kinds) == Flatten([i \in 1..Len(kinds) |-> GitText(kinds[i], i)])

\* Diff texts gitdiff cannot tokenize: a fragment whose header miscounts its
\* lines, a git header without any file name, a fragment before any header.
MalformedDiffs ==
  { <<TLine("diff", <<"a.go">>, <<"a.go">>, <<>>),
      TLine("old", <<"a/">>, <<"a.go">>, <<>>),
      TLine("new", <<"b/">>, <<"a.go">>, <<>>),
      HunkLine(1, 3, 1, 3, <<>>), TLine(OpContext, <<"p">>, <<>>, <<>>),
      TLine(OpAdd, <<"r">>, <<>>, <<>>)>>,
    <<TLine("diff", <<"a.go">>, <<"b.go">>, <<>>)>>,
    HunkMod1 }


\* The change kinds of the files of a session's diff, by position.
KindCycle == <<"mod2", "new", "renmod", "del">>
SessionDiff(n) == GitDiff([i \in 1..n |-> KindCycle[i]])

\* --------------------------------------------- model.RiskLevel, model.Severity
RiskInfo == 0
RiskLow == 1
RiskMedium == 2
RiskHigh == 3
RiskCritical == 4

SeverityInfo == 0
SeverityWarning == 1
SeverityError == 2

\* ------------------------------------------------ analysis: texts and paths
\* A line's text is a sequence of pieces; a piece of blanks is white space, as
\* strings.TrimSpace sees it.  The line end gitdiff keeps is left implicit.
IsSpace(p) == p \in {" ", "  "}

RECURSIVE TrimLeft(_)
TrimLeft(t) == IF t # <<>> /\ IsSpace(Head(t)) THEN TrimLeft(Tail(t)) ELSE t

RECURSIVE TrimRight(_)
TrimRight(t) ==
  IF t # <<>> /\ IsSpace(t[Len(t)]) THEN TrimRight(SubSeq(t, 1, Len(t) - 1)) ELSE t

\* strings.TrimSpace
TrimSpace(t) == TrimRight(TrimLeft(t))

\* What the regular expressions of the passes find in a line of code, worked
\* out by hand for every code text the model uses:
\*   sec        the <<group, pattern>> pairs of securityPatterns that match
\*   fn         the <<pattern, capture>> pairs of funcDefPatterns that match
\*   comment    the text starts with //, #, * or /*
\*   broad      some broadExceptPatterns entry matches
\*   commented  some commentedCodePatterns entry matches
\*   todo       what todoPattern finds ("" when nothing)
\*   ddl        some ddlPatterns entry matches
\*   goDep      what parseDepLine returns for a go.mod line ("" when nothing)
NoFacts ==
  [sec |-> {}, fn |-> {}, comment |-> FALSE, broad |-> FALSE,
   commented |-> FALSE, todo |-> "", ddl |-> FALSE, goDep |-> ""]

CodeFacts(s) ==
  CASE s = "func Login(w, r) {" ->
         [NoFacts EXCEPT !.sec = {<<1, 1>>}, !.fn = {<<1, "Login">>}]
    [] s = "func id(v int) int {" ->
         [NoFacts EXCEPT !.fn = {<<1, "id">>}]
    [] s = "def save(self):" ->
         [NoFacts EXCEPT !.fn = {<<3, "save">>, <<6, "save">>, <<9, "save">>}]
    [] s = "token = os.environ['API_KEY']" ->
         [NoFacts EXCEPT !.sec = {<<1, 1>>, <<6, 1>>, <<6, 2>>}]
    [] s = "db.execute('DROP TABLE users')" ->
         [NoFacts EXCEPT !.sec = {<<3, 1>>, <<3, 2>>}, !.ddl = TRUE]
    [] s = "// TODO: drop the password check" ->
         [NoFacts EXCEPT !.sec = {<<1, 1>>, <<3, 2>>}, !.comment = TRUE,
                         !.todo = "TODO"]
    [] s = "// return nil" ->
         [NoFacts EXCEPT !.comment = TRUE, !.commented = TRUE]
    [] s = "except:" ->
         [NoFacts EXCEPT !.broad = TRUE]
    [] s = "require github.com/x/y v1.0.0" ->
         [NoFacts EXCEPT !.goDep = "github.com/x/y"]
    [] OTHER -> NoFacts

\* ... of a trimmed text: the model's code texts are one piece long
CoreFacts(t) == IF Len(t) = 1 THEN CodeFacts(t[1]) ELSE NoFacts
LineFacts(text) == CoreFacts(TrimSpace(text))

\* len(name) of the function names above
NameLen(n) ==
  CASE n = "Login" -> 5 [] n = "save" -> 4 [] n = "id" -> 2 [] OTHER -> 0

\* A path is a sequence of pieces too; a directory is a piece that ends in a
\* slash.
DirPieces == {"pkg/", "sub/", "vendor/"}

RECURSIVE LastDir(_, _)
\* the position of the last directory piece among the first k, 0 when none
LastDir(p, k) ==
  IF k = 0 THEN 0 ELSE IF p[k] \in DirPieces THEN k ELSE LastDir(p, k - 1)

\* filepath.Dir of a path below the repository root (<<>> is the root)
Dir(p) == SubSeq(p, 1, LastDir(p, Len(p)))

\* baseName: what follows the last slash
baseName(p) == SubSeq(p, LastDir(p, Len(p)) + 1, Len(p))

\* ------------------------------------------------ analysis: lines of a file
\* The counter the passes run along a fragment: lineNum before line k.
NewLineNum(frag, k) ==
  frag.NewPosition
  + Cardinality({x \in 1..(k - 1) : frag.Lines[x].Op \in {OpAdd, OpContext}})

OldLineNum(frag, k) ==
  frag.OldPosition
  + Cardinality({x \in 1..(k - 1) : frag.Lines[x].Op \in {OpDelete, OpContext}})

\* The lines of a file in the order the fragment and line loops visit them,
\* each with both counters.
FileLines(f) ==
  Flatten([i \in 1..Len(f.Fragments) |->
    [k \in 1..Len(f.Fragments[i].Lines) |->
       [Op |-> f.Fragments[i].Lines[k].Op,
        Line |-> f.Fragments[i].Lines[k].Line,
        newNum |-> NewLineNum(f.Fragments[i], k),
        oldNum |-> OldLineNum(f.Fragments[i], k)]]])

\* analysis.Finding
Finding(pass, file, line, msg, sev, risk) ==
  [Pass |-> pass, File |-> file, Line |-> line, Message |-> msg,
   Severity |-> sev, Risk |-> risk]

\* the elements of s at the positions idx
Pick(s, idx) == [i \in 1..Len(idx) |-> s[idx[i]]]

\* ------------------------------------------------------ analysis/security.go
\* securityPatterns: category, number of patterns, risk
securityPatterns ==
  << [category |-> "authentication", patterns |-> 1, risk |-> RiskHigh],
     [category |-> "authorization", patterns |-> 1, risk |-> RiskHigh],
     [category |-> "SQL/database", patterns |-> 3, risk |-> RiskHigh],
     [category |-> "cryptography", patterns |-> 2, risk |-> RiskHigh],
     [category |-> "file system", patterns |-> 3, risk |-> RiskMedium],
     [category |-> "environment/secrets", patterns |-> 3, risk |-> RiskMedium],
     [category |-> "network/HTTP", patterns |-> 2, risk |-> RiskMedium],
     [category |-> "subprocess/exec", patterns |-> 2, risk |-> RiskHigh] >>

\* re.MatchString(text) for pattern p of group c
MatchString(c, p, text) == <<c, p>> \in LineFacts(text).sec

securityMessage(c, text) ==
  <<"Security-sensitive change (", securityPatterns[c].category, "): ">>
  \o TrimSpace(text)

\* The pattern loop of one group for an added line: the first pattern that
\* matches appends a finding and breaks.
securityGroup(name, l, c) ==
  Flatten([p \in 1..securityPatterns[c].patterns |->
    IF MatchString(c, p, l.Line)
       /\ \A q \in 1..(p - 1) : ~MatchString(c, q, l.Line)
    THEN <<Finding("security", name, l.newNum, securityMessage(c, l.Line),
                   SeverityWarning, securityPatterns[c].risk)>>
    ELSE <<>>])

\* The pattern groups tried on a line that is not skipped: an added line gives
\* the first match of every group, any other line nothing.
securityLine(name, l) ==
  IF l.Op # OpAdd THEN <<>>
  ELSE Flatten([c \in 1..Len(securityPatterns) |-> securityGroup(name, l, c)])

\* The line loop with a comment-only added line skipped without counting it.
RECURSIVE securityLinesUncountedComment(_, _, _, _)
securityLinesUncountedComment(name, ls, k, lineNum) ==
  IF k > Len(ls) THEN <<>>
  ELSE IF ls[k].Op = OpAdd /\ LineFacts(ls[k].Line).comment
  THEN securityLinesUncountedComment(name, ls, k + 1, lineNum)
  ELSE securityLine(name, [Op |-> ls[k].Op, Line |-> ls[k].Line,
                           newNum |-> lineNum])
       \o securityLinesUncountedComment(name, ls, k + 1,
            IF ls[k].Op \in {OpAdd, OpContext} THEN lineNum + 1 ELSE lineNum)

\* The line loop of one fragment from line k on, lineNum being the counter the
\* loop keeps: a comment-only added line is counted and skipped (continue),
\* any other line is tried and then counted when it is added or context.
RECURSIVE securityLines(_, _, _, _)
securityLines(name, ls, k, lineNum) ==
  IF k > Len(ls) THEN <<>>
  ELSE IF ls[k].Op = OpAdd /\ LineFacts(ls[k].Line).comment
  THEN securityLines(name, ls, k + 1, lineNum + 1)
  ELSE securityLine(name, [Op |-> ls[k].Op, Line |-> ls[k].Line,
                           newNum |-> lineNum])
       \o securityLines(name, ls, k + 1,
            IF ls[k].Op \in {OpAdd, OpContext} THEN lineNum + 1 ELSE lineNum)

\* The fragment loop of one file: the counter starts at frag.NewPosition.
securityFile(f) ==
  Flatten([i \in 1..Len(f.Fragments) |->
             securityLines(Name(f), f.Fragments[i].Lines, 1,
                           f.Fragments[i].NewPosition)])

\* fmt.Sprintf("%s:%d:%s", f.File, f.Line, f.Message)
findingKey(f) == f.File \o <<":", ToString(f.Line), ":">> \o f.Message

\* deduplicateFindings that drops nothing.
deduplicateFindingsKeepingAll(fs) == fs

\* deduplicateFindings: the first finding of every key, in order
deduplicateFindings(fs) ==
  Pick(fs, SelectIdx(Len(fs),
                     [k \in 1..Len(fs) |->
                        \A j \in 1..(k - 1) : findingKey(fs[j]) # findingKey(fs[k])],
                     1))

\* SecuritySurfacePass
SecuritySurfacePass(files, repo) ==
  deduplicateFindings(
    Flatten([i \in 1..Len(files) |-> securityFile(files[i])]))

\* ------------------------------------------------ analysis: the repository
\* The working tree the passes read: root is repoDir ("" when none was
\* given), files the regular files below it in the order filepath.Walk meets
\* them.  A file is its directory (<<>> is the root), its base name and, per
\* function name, how often \bname\b occurs in its content.
RepoFile(dir, base, refs) == [dir |-> dir, base |-> base, refs |-> refs]

NoRepo == [root |-> "", files |-> <<>>]
NoRefs == [n \in {} |-> 0]

\* filepath.Rel(repoDir, path)
Rel(rf) == rf.dir \o <<rf.base>>

\* \bname\b matches in the content
Refs(rf, fn) == IF fn \in DOMAIN rf.refs THEN rf.refs[fn] ELSE 0

\* isSourceFile, by the extension of the base names the model uses
isSourceFile(base) ==
  base \in {"auth.go", "auth_test.go", "store.go", "store_test.go",
            "login.go", "main.go", "util.go"}

\* the base name matches the last element of the glob g of findTestReferences:
\* *_test.* (1), test_* (2), *_spec.* (3), *_test.* one directory down (4)
baseMatchesGlob(g, base) ==
  /\ g \in {1, 4}
  /\ base \in {"auth_test.go", "store_test.go"}

\* ----------------------------------------- analysis: deleted-code pass
\* funcDefPatterns: the number of patterns
funcDefPatterns == 9

\* pat.FindStringSubmatch(text)[1] for pattern p, "" when it does not match
FindStringSubmatch(p, text) ==
  IF \E x \in LineFacts(text).fn : x[1] = p
  THEN (CHOOSE x \in LineFacts(text).fn : x[1] = p)[2]
  ELSE ""

\* The pattern loop of extractDeletedFunctions: the first match, then break.
deletedFunction(l) ==
  Flatten([p \in 1..funcDefPatterns |->
    IF FindStringSubmatch(p, l.Line) # ""
       /\ \A q \in 1..(p - 1) : FindStringSubmatch(q, l.Line) = ""
    THEN <<[name |-> FindStringSubmatch(p, l.Line), line |-> l.oldNum]>>
    ELSE <<>>])

deletedFunctions(ls) ==
  Flatten([k \in 1..Len(ls) |->
             IF ls[k].Op = OpDelete THEN deletedFunction(ls[k]) ELSE <<>>])

\* extractDeletedFunctions
extractDeletedFunctions(f) == deletedFunctions(FileLines(f))

\* filepath.Glob for glob g below dir: the positions of the files it returns
globMatches(repo, dir, g) ==
  SelectIdx(Len(repo.files),
            [k \in 1..Len(repo.files) |->
               /\ baseMatchesGlob(g, repo.files[k].base)
               /\ IF g = 4
                  THEN /\ Len(repo.files[k].dir) = Len(dir) + 1
                       /\ SubSeq(repo.files[k].dir, 1, Len(dir)) = dir
                  ELSE repo.files[k].dir = dir],
            1)

\* The match loop of findTestReferences for one glob.
testRefsOfGlob(repo, idx, fn) ==
  Flatten([i \in 1..Len(idx) |->
             IF Refs(repo.files[idx[i]], fn) > 0
             THEN <<Rel(repo.files[idx[i]])>> ELSE <<>>])

\* findTestReferences: the test files next to filePath that name fn
findTestReferences(repo, filePath, fn) ==
  IF repo.root = "" THEN <<>>
  ELSE Flatten([g \in 1..4 |->
                  testRefsOfGlob(repo, globMatches(repo, Dir(filePath), g), fn)])

\* The body of DeletedCodePass's loop over the deleted functions.
deletedFinding(repo, name, fn) ==
  IF Len(findTestReferences(repo, name, fn.name)) > 0
  THEN Finding("deleted", name, fn.line,
               <<"Deleted function ", fn.name, " is referenced in tests: ">>
               \o Flatten(findTestReferences(repo, name, fn.name)),
               SeverityError, RiskHigh)
  ELSE Finding("deleted", name, fn.line, <<"Deleted function: ", fn.name>>,
               SeverityInfo, RiskLow)

deletedFindings(repo, name, fns) ==
  [k \in 1..Len(fns) |-> deletedFinding(repo, name, fns[k])]

\* DeletedCodePass
DeletedCodePass(files, repo) ==
  Flatten([i \in 1..Len(files) |->
             deletedFindings(repo, Name(files[i]),
                             extractDeletedFunctions(files[i]))])

\* ----------------------------------------- analysis: blast-radius pass
\* The pattern loop of extractChangedFunctions for one line: every pattern.
changedNames(l) ==
  Flatten([p \in 1..funcDefPatterns |->
    IF FindStringSubmatch(p, l.Line) # ""
    THEN <<FindStringSubmatch(p, l.Line)>> ELSE <<>>])

changedNamesOf(ls) ==
  Flatten([k \in 1..Len(ls) |->
             IF ls[k].Op = OpContext THEN <<>> ELSE changedNames(ls[k])])

\* what `seen` and the length test let through, in order
firstLongNames(ns) ==
  Pick(ns, SelectIdx(Len(ns),
                     [k \in 1..Len(ns) |->
                        /\ NameLen(ns[k]) > 2
                        /\ \A j \in 1..(k - 1) : ns[j] # ns[k]],
                     1))

\* extractChangedFunctions
extractChangedFunctions(f) == firstLongNames(changedNamesOf(FileLines(f)))

\* the directories filepath.Walk does not enter
skippedDir(dir) == \E k \in 1..Len(dir) : dir[k] = "vendor/"

RECURSIVE walkCountLowCeiling(_, _, _, _, _)
\* walkCount that stops once the count exceeds 10.
walkCountLowCeiling(files, k, sourceFile, fn, count) ==
  IF k > Len(files) THEN count
  ELSE IF \/ skippedDir(files[k].dir)
          \/ ~isSourceFile(files[k].base)
          \/ Rel(files[k]) = sourceFile
    THEN walkCountLowCeiling(files, k + 1, sourceFile, fn, count)
  ELSE IF count + Refs(files[k], fn) > 10
    THEN count + Refs(files[k], fn)
  ELSE walkCountLowCeiling(files, k + 1, sourceFile, fn, count + Refs(files[k], fn))

RECURSIVE walkCount(_, _, _, _, _)
\* The walk of countReferences from file k on, count references so far.
walkCount(files, k, sourceFile, fn, count) ==
  IF k > Len(files) THEN count
  ELSE IF \/ skippedDir(files[k].dir)
          \/ ~isSourceFile(files[k].base)
          \/ Rel(files[k]) = sourceFile
    THEN walkCount(files, k + 1, sourceFile, fn, count)
  ELSE IF count + Refs(files[k], fn) > 20
    THEN count + Refs(files[k], fn)
  ELSE walkCount(files, k + 1, sourceFile, fn, count + Refs(files[k], fn))

\* countReferences
countReferences(repo, sourceFile, fn) ==
  IF NameLen(fn) < 3 THEN 0 ELSE walkCount(repo.files, 1, sourceFile, fn, 0)

\* The body of BlastRadiusPass's loop over the changed functions.
blastFinding(name, fn, count) ==
  IF count > 15
  THEN <<Finding("blast_radius", name, 0,
                 <<"Function ", fn, " has ", ToString(count),
                   " references (high blast radius)">>,
                 SeverityWarning, RiskHigh)>>
  ELSE IF count > 5
  THEN <<Finding("blast_radius", name, 0,
                 <<"Function ", fn, " has ", ToString(count),
                   " references across the codebase">>,
                 SeverityWarning, RiskMedium)>>
  ELSE <<>>

blastFindings(repo, name, fns) ==
  Flatten([k \in 1..Len(fns) |->
             blastFinding(name, fns[k], countReferences(repo, name, fns[k]))])

\* BlastRadiusPass
BlastRadiusPass(files, repo) ==
  IF repo.root = "" THEN <<>>
  ELSE Flatten([i \in 1..Len(files) |->
                  blastFindings(repo, Name(files[i]),
                                extractChangedFunctions(files[i]))])

\* ----------------------------------------- analysis: anti-pattern pass
\* checkBroadExceptions, checkCommentedCode and checkTodos: one finding for
\* an added line that a pattern of the check matches.
broadExceptionLine(name, l) ==
  IF l.Op # OpAdd THEN <<>>
  ELSE (IF LineFacts(l.Line).broad
        THEN <<Finding("anti_patterns", name, l.newNum,
                       <<"Broad exception handling: ">> \o TrimSpace(l.Line),
                       SeverityWarning, RiskMedium)>>
        ELSE <<>>)

commentedCodeLine(name, l) ==
  IF l.Op = OpAdd /\ LineFacts(l.Line).commented
  THEN <<Finding("anti_patterns", name, l.newNum,
                 <<"Commented-out code: ">> \o TrimSpace(l.Line),
                 SeverityWarning, RiskLow)>>
  ELSE <<>>

todoLine(name, l) ==
  IF l.Op = OpAdd /\ LineFacts(l.Line).todo # ""
  THEN <<Finding("anti_patterns", name, l.newNum,
                 <<"Agent left ", LineFacts(l.Line).todo, " marker: ">>
                 \o TrimSpace(l.Line),
                 SeverityWarning, RiskLow)>>
  ELSE <<>>

checkBroadExceptions(name, ls) ==
  Flatten([k \in 1..Len(ls) |-> broadExceptionLine(name, ls[k])])
checkCommentedCode(name, ls) ==
  Flatten([k \in 1..Len(ls) |-> commentedCodeLine(name, ls[k])])
checkTodos(name, ls) ==
  Flatten([k \in 1..Len(ls) |-> todoLine(name, ls[k])])

\* The file loop of AntiPatternPass for one file.
fileAntiPatterns(name, ls) ==
  checkBroadExceptions(name, ls) \o checkCommentedCode(name, ls)
  \o checkTodos(name, ls)

\* checkDuplication's window
windowSize == 4

\* the lines checkDuplication skips
trivialText(t) == t \in {<<>>, <<"{">>, <<"}">>, <<")">>, <<"(">>}

\* `added` of checkDuplication: the trimmed text and number of every added
\* line of the file that is not trivial
addedOf(ls) ==
  Flatten([k \in 1..Len(ls) |->
             IF ls[k].Op = OpAdd /\ ~trivialText(TrimSpace(ls[k].Line))
             THEN <<[text |-> TrimSpace(ls[k].Line), lineNum |-> ls[k].newNum]>>
             ELSE <<>>])

\* hashBlock: 64 bits of the SHA-256 of the lines, each followed by a line
\* end.  Two windows of the model have one hash exactly when they hold the
\* same texts, so the hash is kept as the texts.
hashBlock(window) == window

\* The window loop over one file's added lines.
windowsOf(name, added) ==
  [i \in 1..(IF Len(added) >= windowSize THEN Len(added) - windowSize + 1 ELSE 0) |->
     [hash |-> hashBlock([j \in 1..windowSize |-> added[i + j - 1].text]),
      file |-> name, line |-> added[i].lineNum]]

\* allWindows with one list of added lines for the whole diff.
allWindowsOfOneStream(files) ==
  LET added == Flatten([i \in 1..Len(files) |->
                 [k \in 1..Len(addedOf(FileLines(files[i]))) |->
                    [text |-> addedOf(FileLines(files[i]))[k].text,
                     lineNum |-> addedOf(FileLines(files[i]))[k].lineNum,
                     file |-> Name(files[i])]]])
  IN [i \in 1..(IF Len(added) >= windowSize THEN Len(added) - windowSize + 1 ELSE 0) |->
        [hash |-> hashBlock([j \in 1..windowSize |-> added[i + j - 1].text]),
         file |-> added[i].file, line |-> added[i].lineNum]]

\* every window of the diff in the order the file loop appends it
allWindows(files) ==
  Flatten([i \in 1..Len(files) |->
             windowsOf(Name(files[i]), addedOf(FileLines(files[i])))])

\* blocks[h]
blockLocs(ws, h) ==
  Pick(ws, SelectIdx(Len(ws), [k \in 1..Len(ws) |-> ws[k].hash = h], 1))

\* blockFindings that reports the first location too.
blockFindingsFromFirst(locs) ==
  [k \in 1..Len(locs) |->
     Finding("anti_patterns", locs[k].file, locs[k].line,
             <<"Near-duplicate code block (also at ">> \o locs[1].file
             \o <<":", ToString(locs[1].line), ")">>,
             SeverityWarning, RiskMedium)]

\* The findings of one entry of blocks: every location after the first.
blockFindings(locs) ==
  [k \in 1..(Len(locs) - 1) |->
     Finding("anti_patterns", locs[k + 1].file, locs[k + 1].line,
             <<"Near-duplicate code block (also at ">> \o locs[1].file
             \o <<":", ToString(locs[1].line), ")">>,
             SeverityWarning, RiskMedium)]

\* the hashes with two locations or more
repeatedHashes(ws) ==
  {h \in {ws[k].hash : k \in 1..Len(ws)} :
     Cardinality({k \in 1..Len(ws) : ws[k].hash = h}) >= 2}

\* the orders in which a range over a Go map may visit the keys ks
MapOrders(ks) ==
  {o \in [1..Cardinality(ks) -> ks] :
     \A a, b \in 1..Cardinality(ks) : a # b => o[a] # o[b]}

\* checkDuplication's findings when the range over blocks visits the
\* repeated hashes in the order o
duplicationIn(ws, o) ==
  Flatten([k \in 1..Len(o) |-> blockFindings(blockLocs(ws, o[k]))])

duplicationOf(ws) == {duplicationIn(ws, o) : o \in MapOrders(repeatedHashes(ws))}

\* checkDuplication: every result the map order allows
checkDuplication(files) == duplicationOf(allWindows(files))

\* AntiPatternPass: every result the map order allows
AntiPatternPass(files, repo) ==
  {Flatten([i \in 1..Len(files) |->
              fileAntiPatterns(Name(files[i]), FileLines(files[i]))]) \o d :
     d \in checkDuplication(files)}

\* ------------------------------------------- analysis: dependency pass
\* depFiles[base]: the ecosystem, "" when base is no manifest.  go.mod is the
\* manifest the model uses.
depFiles(base) == IF base = <<"go.mod">> THEN "go" ELSE ""

\* parseDepLine for the ecosystem go
parseDepLine(text, eco) == IF eco = "go" THEN LineFacts(text).goDep ELSE ""

depLine(name, eco, l) ==
  IF l.Op = OpAdd /\ parseDepLine(TrimSpace(l.Line), eco) # ""
  THEN <<Finding("deps", name, l.newNum,
                 <<"New ", eco, " dependency: ",
                   parseDepLine(TrimSpace(l.Line), eco)>>,
                 SeverityWarning, RiskMedium)>>
  ELSE <<>>

\* extractNewDeps and the loop over its result
newDepFindings(name, eco, ls) ==
  Flatten([k \in 1..Len(ls) |-> depLine(name, eco, ls[k])])

\* NewDependencyPass
NewDependencyPass(files, repo) ==
  Flatten([i \in 1..Len(files) |->
             IF depFiles(baseName(Name(files[i]))) = "" THEN <<>>
             ELSE newDepFindings(Name(files[i]),
                                 depFiles(baseName(Name(files[i]))),
                                 FileLines(files[i]))])

\* ------------------------------------------------- analysis/schema.go
\* The description of the first entry of schemaPatterns that matches the
\* name, "" when none does.  schema.sql is the schema file the model uses.
schemaDescription(name) ==
  IF \E k \in 1..Len(name) : name[k] = "schema.sql"
  THEN "schema definition" ELSE ""

schemaFileFinding(name) ==
  IF schemaDescription(name) = "" THEN <<>>
  ELSE <<Finding("schema", name, 0,
                 <<"Changes to ", schemaDescription(name), " file">>,
                 SeverityWarning, RiskHigh)>>

ddlLine(name, l) ==
  IF l.Op = OpAdd /\ LineFacts(l.Line).ddl
  THEN <<Finding("schema", name, l.newNum,
                 <<"DDL statement: ">> \o TrimSpace(l.Line),
                 SeverityWarning, RiskHigh)>>
  ELSE <<>>

\* checkDDL
checkDDL(name, ls) == Flatten([k \in 1..Len(ls) |-> ddlLine(name, ls[k])])

\* SchemaChangePass
SchemaChangePass(files, repo) ==
  Flatten([i \in 1..Len(files) |->
             schemaFileFinding(Name(files[i]))
             \o checkDDL(Name(files[i]), FileLines(files[i]))])

\* ------------------------------------------------ analysis/analysis.go
\* The keys of PassNames.
PassNames ==
  {"deps", "security", "deleted", "schema", "anti_patterns", "blast_radius"}

\* PassNames[name](ds, repoDir): every result the pass may return
PassResults(name, files, repo) ==
  CASE name = "deps" -> {NewDependencyPass(files, repo)}
    [] name = "security" -> {SecuritySurfacePass(files, repo)}
    [] name = "deleted" -> {DeletedCodePass(files, repo)}
    [] name = "schema" -> {SchemaChangePass(files, repo)}
    [] name = "anti_patterns" -> AntiPatternPass(files, repo)
    [] name = "blast_radius" -> {BlastRadiusPass(files, repo)}

\* skipSet that holds the first name of the list only.
skipSetFirstOnly(skip) == IF skip = <<>> THEN {} ELSE {skip[1]}

\* skipSet of Run
skipSet(skip) == {skip[k] : k \in 1..Len(skip)}

\* maxRiskFrom that keeps the risk of the last finding.
maxRiskFromLast(fs, k, max) == IF k > Len(fs) THEN max ELSE fs[Len(fs)].Risk

RECURSIVE maxRiskFrom(_, _, _)
\* The loop of Results.MaxRisk from finding k on.
maxRiskFrom(fs, k, max) ==
  IF k > Len(fs) THEN max
  ELSE maxRiskFrom(fs, k + 1, IF fs[k].Risk > max THEN fs[k].Risk ELSE max)

\* Results.MaxRisk
MaxRisk(fs) == maxRiskFrom(fs, 1, RiskInfo)

\* counts[level] of Results.Summary
riskCount(fs, level) == Cardinality({k \in 1..Len(fs) : fs[k].Risk = level})

\* Results.Summary: "No issues found", or the count and level of every level
\* that occurs, from critical down
Summary(fs) ==
  IF Len(fs) = 0 THEN [text |-> "No issues found", parts |-> <<>>]
  ELSE [text |-> "",
        parts |-> Flatten([k \in 1..5 |->
                    IF riskCount(fs, 5 - k) > 0
                    THEN <<[count |-> riskCount(fs, 5 - k), level |-> 5 - k]>>
                    ELSE <<>>])]

\* --------------------------------------------- diffs and repositories checked
\* The header of a modified file, of a new file and of a renamed one.
ModHeader(x) ==
  <<TLine("diff", x, x, <<>>), TLine("index", <<>>, <<>>, <<>>),
    TLine("old", <<"a/">>, x, <<>>), TLine("new", <<"b/">>, x, <<>>)>>
NewHeader(x) ==
  <<TLine("diff", x, x, <<>>), TLine("newmode", <<>>, <<>>, <<>>),
    TLine("index", <<>>, <<>>, <<>>), TLine("old", <<>>, devNull, <<>>),
    TLine("new", <<"b/">>, x, <<>>)>>
RenHeader(x, y) ==
  <<TLine("diff", x, y, <<>>), TLine("sim", <<>>, <<>>, <<>>),
    TLine("renfrom", x, <<>>, <<>>), TLine("rento", y, <<>>, <<>>),
    TLine("index", <<>>, <<>>, <<>>), TLine("old", <<"a/">>, x, <<>>),
    TLine("new", <<"b/">>, y, <<>>)>>

\* A fragment at old line o and new line n whose header counts its lines.
Hunk(o, n, ls) ==
  <<HunkLine(o, Cardinality({k \in 1..Len(ls) : ls[k].k \in {OpContext, OpDelete}}),
             n, Cardinality({k \in 1..Len(ls) : ls[k].k \in {OpContext, OpAdd}}),
             <<>>)>> \o ls

Ctx(t) == TLine(OpContext, t, <<>>, <<>>)
Add(t) == TLine(OpAdd, t, <<>>, <<>>)
Del(t) == TLine(OpDelete, t, <<>>, <<>>)

\* The files a checked change set is made of: one without anything to find,
\* one with leftovers of the agent, a manifest, one that touches
\* authentication, a schema, one whose secret follows a comment.
CheckFiles ==
  <<    ModHeader(<<"util.go">>)
                \o Hunk(4, 4, <<Ctx(<<"x := 1">>), Add(<<"  ", "y := 2">>)>>)
    ,   ModHeader(<<"main.go">>)
                \o Hunk(9, 9, <<Add(<<"// TODO: drop the password check">>),
                                Add(<<"// return nil">>)>>)
    ,   ModHeader(<<"go.mod">>)
                \o Hunk(5, 5, <<Ctx(<<"require github.com/x/y v1.0.0">>),
                                Add(<<"require github.com/x/y v1.0.0">>)>>)
    ,   ModHeader(<<"pkg/", "auth.go">>)
                \o Hunk(3, 3, <<Ctx(<<"x := 1">>), Del(<<"func id(v int) int {">>),
                                Add(<<"func Login(w, r) {">>),
                                Add(<<"  ", "token = os.environ['API_KEY']">>)>>)
    ,   NewHeader(<<"schema.sql">>)
                \o Hunk(0, 1, <<Add(<<"db.execute('DROP TABLE users')">>)>>)
    ,   ModHeader(<<"pkg/", "store.go">>)
                \o Hunk(7, 7, <<Add(<<"// TODO: drop the password check">>),
                                Ctx(<<"x := 1">>),
                                Add(<<"  ", "token = os.environ['API_KEY']">>)>>)
  >>

\* The working tree around those files.
CheckRepo ==
  [root |-> "repo",
   files |-> << RepoFile(<<>>, "go.mod", NoRefs),
                RepoFile(<<>>, "main.go", [Login |-> 4]),
                RepoFile(<<"pkg/">>, "auth.go", [Login |-> 2, id |-> 3]),
                RepoFile(<<"pkg/">>, "auth_test.go", [Login |-> 1, id |-> 1]),
                RepoFile(<<"pkg/">>, "store.go", [Login |-> 2]),
                RepoFile(<<>>, "schema.sql", NoRefs),
                RepoFile(<<>>, "util.go", NoRefs) >>]

\* ------------------------------------------------------------------- state
VARIABLES
  driver,        \* what runs: "tui" (review), "ws" (serve), "apply", "check",
                 \* "unit" (one function of internal/analysis)
  \* tui.Model
  diffSet,       \* m.diffSet.Files
  trace,         \* m.trace: [nil, Steps]
  fileIndex,     \* m.fileIndex (0-based)
  scrollOffset,  \* m.scrollOffset
  lines,         \* m.lines
  showTrace,     \* m.showTrace
  traceScroll,   \* m.traceScroll
  traceSteps,    \* m.traceSteps
  focusPanel,    \* m.focusPanel
  decisions,     \* m.decisions
  showSummary,   \* m.showSummary
  summaryScroll, \* m.summaryScroll
  quit,          \* tea.Quit was returned
  ev,            \* the last key event: [key, at, view]
  \* api.reviewSession, one per connection
  wsDs,          \* session.ds: [nil, Files]
  wsResults,     \* session.results
  wsDecisions,   \* session.decisions
  wsReq,         \* the last message read from a connection
  wsOut,         \* the notifications sent in answer to it, in order
  \* patch reconstruction
  pRaw,          \* the diff text given to diff.Parse
  pResult,       \* the ReviewResult: [Files, Decisions]
  pPatch,        \* GeneratePatch's text
  pBack,         \* diff.Parse of that text
  pStage,        \* "none", "reviewed", "patched", "reparsed", "messaged"
  pMsg,          \* GenerateCommitMessage's lines
  \* cli check
  cRaw,          \* the diff text getDiff returned
  cRepo,         \* the working tree, root "" when gitRepoRoot found none
  cSkip,         \* the --skip flag
  cFormat,       \* the --format flag, "" until it is read
  cDs,           \* ds.Files
  cTodo,         \* the keys of PassNames the range in Run has yet to visit
  cRan,          \* per pass, what each call of it by Run returned
  cFindings,     \* results.Findings
  cStage,        \* "none", "start", "run", "done"
  cExit,         \* the exit code of the process, -1 while it runs
  \* a call of one function of internal/analysis
  uDs,           \* the DiffSet given: ds.Files
  uRepo,         \* the working tree given
  uFindings,     \* the Findings of the Results given
  uCall,         \* the function called, "" before the call
  uOut           \* what it returned

tuiVars == <<diffSet, trace, fileIndex, scrollOffset, lines, showTrace,
             traceScroll, traceSteps, focusPanel, decisions, showSummary,
             summaryScroll, quit, ev>>
wsVars == <<wsDs, wsResults, wsDecisions, wsReq, wsOut>>
patchVars == <<pRaw, pResult, pPatch, pBack, pStage, pMsg>>
checkVars == <<cRaw, cRepo, cSkip, cFormat, cDs, cTodo, cRan, cFindings,
               cStage, cExit>>
unitVars == <<uDs, uRepo, uFindings, uCall, uOut>>
vars == <<driver, tuiVars, wsVars, patchVars, checkVars, unitVars>>

\* --------------------------------------------------- internal/tui/render.go
RECURSIVE renderLines(_, _, _, _)
\* The line loop of renderFile: old and new counters run along the fragment.
renderLines(ls, k, oldLine, newLine) ==
  IF k > Len(ls) THEN <<>>
  ELSE LET op == ls[k].Op IN
    <<[IsHunk |-> FALSE, Op |-> op,
       OldNum |-> IF op \in {OpContext, OpDelete} THEN oldLine ELSE 0,
       NewNum |-> IF op \in {OpContext, OpAdd} THEN newLine ELSE 0]>>
    \o renderLines(ls, k + 1,
                   IF op \in {OpContext, OpDelete} THEN oldLine + 1 ELSE oldLine,
                   IF op \in {OpContext, OpAdd} THEN newLine + 1 ELSE newLine)

\* renderFile: a header per fragment, its lines, a blank between fragments.
renderFile(f) ==
  Flatten([i \in 1..Len(f.Fragments) |->
    <<[IsHunk |-> TRUE, Op |-> OpContext, OldNum |-> 0, NewNum |-> 0]>>
    \o renderLines(f.Fragments[i].Lines, 1,
                   f.Fragments[i].OldPosition, f.Fragments[i].NewPosition)
    \o (IF i < Len(f.Fragments)
        THEN <<[IsHunk |-> FALSE, Op |-> OpContext, OldNum |-> 0, NewNum |-> 0]>>
        ELSE <<>>)])

\* ------------------------------------------------------ internal/tui/tui.go
NoTrace == [nil |-> TRUE, Steps |-> <<>>]

\* Model.updateLines for active file i
updateLines(files, i) == IF Len(files) = 0 THEN <<>> ELSE renderFile(files[i + 1])

\* Model.updateTraceSteps for active file i: the steps that name the file,
\* or every step when none does.  Paths of the model have no directory.
stepsOrAll(steps, idx) ==
  IF Len(idx) > 0 THEN [k \in 1..Len(idx) |-> steps[idx[k]]] ELSE steps
updateTraceSteps(t, files, i) ==
  IF t.nil THEN <<>>
  ELSE IF Len(files) = 0 THEN t.Steps
  ELSE stepsOrAll(t.Steps,
         SelectIdx(Len(t.Steps),
                   [k \in 1..Len(t.Steps) |->
                      t.Steps[k].FilePath # <<>>
                      /\ t.Steps[k].FilePath = Name(files[i + 1])], 1))

\* advanceAfterDecision with a second loop from index 0 when the first finds
\* nothing: the advance wraps around to a pending file before i.
advanceTargetWrapping(n, d, i) ==
  IF \E j \in (i + 1)..(n - 1) : j \notin DOMAIN d
  THEN CHOOSE j \in (i + 1)..(n - 1) :
         j \notin DOMAIN d /\ \A k \in (i + 1)..(j - 1) : k \in DOMAIN d
  ELSE IF \E j \in 0..(i - 1) : j \notin DOMAIN d
  THEN CHOOSE j \in 0..(i - 1) :
         j \notin DOMAIN d /\ \A k \in 0..(j - 1) : k \in DOMAIN d
  ELSE i

\* The first undecided index after i, or i when there is none
\* (the loop of Model.advanceAfterDecision).
advanceTarget(n, d, i) ==
  IF \E j \in (i + 1)..(n - 1) : j \notin DOMAIN d
  THEN CHOOSE j \in (i + 1)..(n - 1) :
         j \notin DOMAIN d /\ \A k \in (i + 1)..(j - 1) : k \in DOMAIN d
  ELSE i

\* The target of jumpToNextHunk / jumpToPrevHunk from offset o.
nextHunk(ls, o) ==
  IF \E i \in (o + 1)..(Len(ls) - 1) : ls[i + 1].IsHunk
  THEN CHOOSE i \in (o + 1)..(Len(ls) - 1) :
         ls[i + 1].IsHunk /\ \A k \in (o + 1)..(i - 1) : ~ls[k + 1].IsHunk
  ELSE o
prevHunk(ls, o) ==
  IF \E i \in 0..(o - 1) : ls[i + 1].IsHunk
  THEN CHOOSE i \in 0..(o - 1) :
         ls[i + 1].IsHunk /\ \A k \in (i + 1)..(o - 1) : ~ls[k + 1].IsHunk
  ELSE o

\* make(map[int]model.ReviewDecision)
EmptyMap == [k \in {} |-> DecisionPending]

\* A store that writes dec over every entry the map holds.
MapSetClobbering(d, i, dec) == [k \in DOMAIN d \cup {i} |-> dec]

\* m[i] = dec
MapSet(d, i, dec) == [k \in DOMAIN d \cup {i} |-> IF k = i THEN dec ELSE d[k]]

\* A delete that stores the pending value instead of removing the entry.
MapDeleteStoringPending(d, i) ==
  [k \in DOMAIN d \cup {i} |-> IF k = i THEN DecisionPending ELSE d[k]]

\* A delete that leaves the entry in place.
MapDeleteKeeping(d, i) == d

\* delete(m, i)
MapDelete(d, i) == [k \in DOMAIN d \ {i} |-> d[k]]

\* DecisionCounts whose default branch is also taken by rejected files.
DecisionCountsRejectedTwice(files, d) ==
  [approved |-> Cardinality({i \in 0..(Len(files) - 1) : DecisionOf(d, i) = DecisionApproved}),
   rejected |-> Cardinality({i \in 0..(Len(files) - 1) : DecisionOf(d, i) = DecisionRejected}),
   pending |-> Cardinality({i \in 0..(Len(files) - 1) :
                  DecisionOf(d, i) # DecisionApproved})]

\* Model.DecisionCounts
DecisionCounts(files, d) ==
  [approved |-> Cardinality({i \in 0..(Len(files) - 1) : DecisionOf(d, i) = DecisionApproved}),
   rejected |-> Cardinality({i \in 0..(Len(files) - 1) : DecisionOf(d, i) = DecisionRejected}),
   pending |-> Cardinality({i \in 0..(Len(files) - 1) :
                  DecisionOf(d, i) \notin {DecisionApproved, DecisionRejected}})]

TraceChoices ==
  {NoTrace,
   [nil |-> FALSE,
    Steps |-> [k \in 1..MaxTraceSteps |->
                 [FilePath |-> IF k = 1 THEN <<FileNames[1]>> ELSE <<>>]]]}

otherThanTui == <<driver, wsVars, patchVars, checkVars, unitVars>>
otherThanWs == <<driver, tuiVars, patchVars, checkVars, unitVars>>
otherThanPatch == <<driver, tuiVars, wsVars, checkVars, unitVars>>
otherThanCheck == <<driver, tuiVars, wsVars, patchVars, unitVars>>
otherThanUnit == <<driver, tuiVars, wsVars, patchVars, checkVars>>

\* tui.New(ds, t, ar)
InitTuiModel(files, t) ==
  /\ diffSet = files
  /\ trace = t
  /\ fileIndex = 0
  /\ scrollOffset = 0
  /\ lines = updateLines(files, 0)
  /\ showTrace = FALSE
  /\ traceScroll = 0
  /\ traceSteps = updateTraceSteps(t, files, 0)
  /\ focusPanel = 0
  /\ decisions = EmptyMap
  /\ showSummary = FALSE
  /\ summaryScroll = 0
  /\ quit = FALSE
  /\ ev = [key |-> "none", at |-> 0, view |-> "review"]

\* MoveTo that leaves the two scroll offsets where they are.
MoveToKeepingScroll(i) ==
  /\ fileIndex' = i
  /\ UNCHANGED <<scrollOffset, traceScroll>>
  /\ lines' = updateLines(diffSet, i)
  /\ traceSteps' = updateTraceSteps(trace, diffSet, i)

\* The change of active file to index i, with the three refreshes.
MoveTo(i) ==
  /\ fileIndex' = i
  /\ scrollOffset' = 0
  /\ traceScroll' = 0
  /\ lines' = updateLines(diffSet, i)
  /\ traceSteps' = updateTraceSteps(trace, diffSet, i)

Running == driver = "tui" /\ ~quit
View == IF showSummary THEN "summary" ELSE "review"
\* The last key event: a decision key is kept with the active index it met,
\* every other key as "other".
DecisionKeys == {"approve", "reject", "undo"}
Event(k) ==
  ev' = IF k \in DecisionKeys THEN [key |-> k, at |-> fileIndex, view |-> View]
        ELSE [key |-> "other", at |-> 0, view |-> View]

\* keys.Quit: ends the program in either view
KeyQuit ==
  /\ Running
  /\ Event("quit")
  /\ quit' = TRUE
  /\ UNCHANGED <<diffSet, trace, fileIndex, scrollOffset, lines, showTrace,
                 traceScroll, traceSteps, focusPanel, decisions, showSummary,
                 summaryScroll>>
  /\ UNCHANGED otherThanTui

\* keys.Down
KeyDown ==
  /\ Running
  /\ Event("down")
  /\ IF showSummary
     THEN /\ summaryScroll < MaxSummaryScroll
          /\ summaryScroll' = summaryScroll + 1
          /\ UNCHANGED <<scrollOffset, traceScroll>>
     ELSE IF focusPanel = 0
     THEN /\ scrollOffset' = IF scrollOffset < Len(lines) - 1
                             THEN scrollOffset + 1 ELSE scrollOffset
          /\ UNCHANGED <<summaryScroll, traceScroll>>
     ELSE /\ traceScroll' = IF traceScroll < Len(traceSteps) - 1
                            THEN traceScroll + 1 ELSE traceScroll
          /\ UNCHANGED <<summaryScroll, scrollOffset>>
  /\ UNCHANGED <<diffSet, trace, fileIndex, lines, showTrace, traceSteps,
                 focusPanel, decisions, showSummary, quit>>
  /\ UNCHANGED otherThanTui

\* keys.Up
KeyUp ==
  /\ Running
  /\ Event("up")
  /\ IF showSummary
     THEN /\ summaryScroll' = IF summaryScroll > 0 THEN summaryScroll - 1 ELSE 0
          /\ UNCHANGED <<scrollOffset, traceScroll>>
     ELSE IF focusPanel = 0
     THEN /\ scrollOffset' = IF scrollOffset > 0 THEN scrollOffset - 1 ELSE scrollOffset
          /\ UNCHANGED <<summaryScroll, traceScroll>>
     ELSE /\ traceScroll' = IF traceScroll > 0 THEN traceScroll - 1 ELSE traceScroll
          /\ UNCHANGED <<summaryScroll, scrollOffset>>
  /\ UNCHANGED <<diffSet, trace, fileIndex, lines, showTrace, traceSteps,
                 focusPanel, decisions, showSummary, quit>>
  /\ UNCHANGED otherThanTui

\* keys.NextFile
KeyNextFile ==
  /\ Running
  /\ Event("next")
  /\ IF ~showSummary /\ fileIndex < Len(diffSet) - 1
     THEN MoveTo(fileIndex + 1)
     ELSE UNCHANGED <<fileIndex, scrollOffset, traceScroll, lines, traceSteps>>
  /\ UNCHANGED <<diffSet, trace, showTrace, focusPanel, decisions, showSummary,
                 summaryScroll, quit>>
  /\ UNCHANGED otherThanTui

\* keys.PrevFile
KeyPrevFile ==
  /\ Running
  /\ Event("prev")
  /\ IF ~showSummary /\ fileIndex > 0
     THEN MoveTo(fileIndex - 1)
     ELSE UNCHANGED <<fileIndex, scrollOffset, traceScroll, lines, traceSteps>>
  /\ UNCHANGED <<diffSet, trace, showTrace, focusPanel, decisions, showSummary,
                 summaryScroll, quit>>
  /\ UNCHANGED otherThanTui

\* keys.NextHunk
KeyNextHunk ==
  /\ Running
  /\ Event("nexthunk")
  /\ scrollOffset' = IF showSummary THEN scrollOffset ELSE nextHunk(lines, scrollOffset)
  /\ UNCHANGED <<diffSet, trace, fileIndex, lines, showTrace, traceScroll,
                 traceSteps, focusPanel, decisions, showSummary, summaryScroll, quit>>
  /\ UNCHANGED otherThanTui

\* keys.PrevHunk
KeyPrevHunk ==
  /\ Running
  /\ Event("prevhunk")
  /\ scrollOffset' = IF showSummary THEN scrollOffset ELSE prevHunk(lines, scrollOffset)
  /\ UNCHANGED <<diffSet, trace, fileIndex, lines, showTrace, traceScroll,
                 traceSteps, focusPanel, decisions, showSummary, summaryScroll, quit>>
  /\ UNCHANGED otherThanTui

\* keys.Trace without the return of the focus when the panel is hidden.
KeyTraceKeepingFocus ==
  /\ Running
  /\ Event("trace")
  /\ IF ~showSummary /\ ~trace.nil
     THEN showTrace' = ~showTrace /\ UNCHANGED focusPanel
     ELSE UNCHANGED <<showTrace, focusPanel>>
  /\ UNCHANGED <<diffSet, trace, fileIndex, scrollOffset, lines, traceScroll,
                 traceSteps, decisions, showSummary, summaryScroll, quit>>
  /\ UNCHANGED otherThanTui

\* keys.Trace
KeyTrace ==
  /\ Running
  /\ Event("trace")
  /\ IF ~showSummary /\ ~trace.nil
     THEN /\ showTrace' = ~showTrace
          /\ focusPanel' = IF showTrace THEN 0 ELSE focusPanel
     ELSE UNCHANGED <<showTrace, focusPanel>>
  /\ UNCHANGED <<diffSet, trace, fileIndex, scrollOffset, lines, traceScroll,
                 traceSteps, decisions, showSummary, summaryScroll, quit>>
  /\ UNCHANGED otherThanTui

\* keys.FocusSwap
KeyFocusSwap ==
  /\ Running
  /\ Event("focus")
  /\ focusPanel' = IF ~showSummary /\ showTrace THEN 1 - focusPanel ELSE focusPanel
  /\ UNCHANGED <<diffSet, trace, fileIndex, scrollOffset, lines, showTrace,
                 traceScroll, traceSteps, decisions, showSummary, summaryScroll, quit>>
  /\ UNCHANGED otherThanTui

\* Decide without the dispatch to updateSummary: the keys decide in the
\* summary view as they do in the review view.
DecideInSummary(k, dec) ==
  /\ Running
  /\ Event(k)
  /\ IF Len(diffSet) > 0
     THEN /\ decisions' = MapSet(decisions, fileIndex, dec)
          /\ LET t == advanceTarget(Len(diffSet), MapSet(decisions, fileIndex, dec),
                                    fileIndex)
             IN IF t # fileIndex THEN MoveTo(t)
                ELSE UNCHANGED <<fileIndex, scrollOffset, traceScroll, lines, traceSteps>>
     ELSE UNCHANGED <<decisions, fileIndex, scrollOffset, traceScroll, lines, traceSteps>>
  /\ UNCHANGED <<diffSet, trace, showTrace, focusPanel, showSummary,
                 summaryScroll, quit>>
  /\ UNCHANGED otherThanTui

\* keys.Approve / keys.Reject: record the decision, then advanceAfterDecision
Decide(k, dec) ==
  /\ Running
  /\ Event(k)
  /\ IF ~showSummary /\ Len(diffSet) > 0
     THEN /\ decisions' = MapSet(decisions, fileIndex, dec)
          /\ LET t == advanceTarget(Len(diffSet), MapSet(decisions, fileIndex, dec),
                                    fileIndex)
             IN IF t # fileIndex THEN MoveTo(t)
                ELSE UNCHANGED <<fileIndex, scrollOffset, traceScroll, lines, traceSteps>>
     ELSE UNCHANGED <<decisions, fileIndex, scrollOffset, traceScroll, lines, traceSteps>>
  /\ UNCHANGED <<diffSet, trace, showTrace, focusPanel, showSummary,
                 summaryScroll, quit>>
  /\ UNCHANGED otherThanTui

KeyApprove == Decide("approve", DecisionApproved)
KeyReject == Decide("reject", DecisionRejected)

\* keys.Undo
KeyUndo ==
  /\ Running
  /\ Event("undo")
  /\ decisions' = IF ~showSummary /\ Len(diffSet) > 0
                  THEN MapDelete(decisions, fileIndex) ELSE decisions
  /\ UNCHANGED <<diffSet, trace, fileIndex, scrollOffset, lines, showTrace,
                 traceScroll, traceSteps, focusPanel, showSummary, summaryScroll, quit>>
  /\ UNCHANGED otherThanTui

\* keys.Finish (enter): opens the summary; in the summary it ends the program
KeyFinish ==
  /\ Running
  /\ Event("finish")
  /\ IF showSummary
     THEN quit' = TRUE /\ UNCHANGED <<showSummary, summaryScroll>>
     ELSE showSummary' = TRUE /\ summaryScroll' = 0 /\ UNCHANGED quit
  /\ UNCHANGED <<diffSet, trace, fileIndex, scrollOffset, lines, showTrace,
                 traceScroll, traceSteps, focusPanel, decisions>>
  /\ UNCHANGED otherThanTui

\* esc: leaves the summary; no binding in the review view
KeyEsc ==
  /\ Running
  /\ Event("esc")
  /\ showSummary' = FALSE
  /\ UNCHANGED <<diffSet, trace, fileIndex, scrollOffset, lines, showTrace,
                 traceScroll, traceSteps, focusPanel, decisions, summaryScroll, quit>>
  /\ UNCHANGED otherThanTui

NextTui ==
  \/ KeyQuit \/ KeyDown \/ KeyUp \/ KeyNextFile \/ KeyPrevFile
  \/ KeyNextHunk \/ KeyPrevHunk \/ KeyTrace \/ KeyFocusSwap
  \/ KeyApprove \/ KeyReject \/ KeyUndo \/ KeyFinish \/ KeyEsc


\* ------------------------------------------------------- internal/api/ws.go
Conns == 1..MaxConns
NoDs == [nil |-> TRUE, Files |-> <<>>]
NoResults == [nil |-> TRUE, of |-> <<>>, skip |-> <<>>]

\* analysis.Run(ds, repoDir, skip): the Results for these arguments, kept as
\* the arguments that determine them.
AnalysisRun(files, skip) == [nil |-> FALSE, of |-> files, skip |-> skip]

\* What a client may send.
WsDiffs == {SessionDiff(0), SessionDiff(MaxWsFiles)} \cup MalformedDiffs
WsIndices == (0 - 1)..MaxWsFiles
WsSkips == {<<>>}
\* a payload json.Unmarshal rejects / accepts with file_index i
BadPayload == [ok |-> FALSE, FileIndex |-> 0]
Payloads == {BadPayload} \cup {[ok |-> TRUE, FileIndex |-> i] : i \in WsIndices}

\* held: the session had a decision recorded when a load_diff was read
Request(c, t, ok, i, d) ==
  [conn |-> c, type |-> t, ok |-> ok, FileIndex |-> i, diff |-> d,
   held |-> FALSE]
ErrorMsg(m) == [type |-> "error", message |-> m]
DecisionMsg(i, d) == [type |-> "decision", FileIndex |-> i, Decision |-> d]

\* the session created by handleWebSocket for each connection
InitWsSessions ==
  /\ wsDs = [c \in Conns |-> NoDs]
  /\ wsResults = [c \in Conns |-> NoResults]
  /\ wsDecisions = [c \in Conns |-> EmptyMap]
  /\ wsReq = Request(0, "none", TRUE, 0, <<>>)
  /\ wsOut = <<>>

\* wsParsedResponse
ParsedMsg(files) ==
  [type |-> "parsed", Stats |-> Stats(files),
   Files |-> [i \in 1..Len(files) |-> Name(files[i])]]

\* handleWSLoadDiff that drops the session's diff when the new one fails.
loadParsedResetting(c, ds, skip) ==
  IF ds.err
  THEN /\ wsOut' = <<ErrorMsg("parsing diff")>>
       /\ wsDs' = [wsDs EXCEPT ![c] = NoDs]
       /\ wsDecisions' = [wsDecisions EXCEPT ![c] = EmptyMap]
       /\ wsResults' = [wsResults EXCEPT ![c] = NoResults]
  ELSE /\ wsDs' = [wsDs EXCEPT ![c] = [nil |-> FALSE, Files |-> ds.Files]]
       /\ wsDecisions' = [wsDecisions EXCEPT ![c] = EmptyMap]
       /\ wsResults' = [wsResults EXCEPT ![c] = AnalysisRun(ds.Files, skip)]
       /\ wsOut' = <<ParsedMsg(ds.Files),
                     [type |-> "analysis", results |-> AnalysisRun(ds.Files, skip)]>>

\* handleWSLoadDiff that sends the analysis before the parsed notification.
loadParsedAnalysisFirst(c, ds, skip) ==
  IF ds.err
  THEN /\ wsOut' = <<ErrorMsg("parsing diff")>>
       /\ UNCHANGED <<wsDs, wsResults, wsDecisions>>
  ELSE /\ wsDs' = [wsDs EXCEPT ![c] = [nil |-> FALSE, Files |-> ds.Files]]
       /\ wsDecisions' = [wsDecisions EXCEPT ![c] = EmptyMap]
       /\ wsResults' = [wsResults EXCEPT ![c] = AnalysisRun(ds.Files, skip)]
       /\ wsOut' = <<[type |-> "analysis", results |-> AnalysisRun(ds.Files, skip)],
                     ParsedMsg(ds.Files)>>

\* handleWSLoadDiff that keeps the decisions recorded for the diff before.
loadParsedKeepingDecisions(c, ds, skip) ==
  IF ds.err
  THEN /\ wsOut' = <<ErrorMsg("parsing diff")>>
       /\ UNCHANGED <<wsDs, wsResults, wsDecisions>>
  ELSE /\ wsDs' = [wsDs EXCEPT ![c] = [nil |-> FALSE, Files |-> ds.Files]]
       /\ UNCHANGED wsDecisions
       /\ wsResults' = [wsResults EXCEPT ![c] = AnalysisRun(ds.Files, skip)]
       /\ wsOut' = <<ParsedMsg(ds.Files),
                     [type |-> "analysis", results |-> AnalysisRun(ds.Files, skip)]>>

\* handleWSLoadDiff once diff.Parse returned ds
loadParsed(c, ds, skip) ==
  IF ds.err
  THEN /\ wsOut' = <<ErrorMsg("parsing diff")>>
       /\ UNCHANGED <<wsDs, wsResults, wsDecisions>>
  ELSE /\ wsDs' = [wsDs EXCEPT ![c] = [nil |-> FALSE, Files |-> ds.Files]]
       /\ wsDecisions' = [wsDecisions EXCEPT ![c] = EmptyMap]
       /\ wsResults' = [wsResults EXCEPT ![c] = AnalysisRun(ds.Files, skip)]
       /\ wsOut' = <<ParsedMsg(ds.Files),
                     [type |-> "analysis", results |-> AnalysisRun(ds.Files, skip)]>>

\* handleWSLoadDiff; ok = FALSE is a payload json.Unmarshal rejects
WsLoadDiff(c, ok, d, skip) ==
  /\ ok \/ (d = <<>> /\ skip = <<>>)
  /\ driver = "ws"
  /\ wsReq' = [Request(c, "load_diff", ok, 0, d)
                EXCEPT !.held = (wsDecisions[c] # EmptyMap)]
  /\ IF ~ok
     THEN /\ wsOut' = <<ErrorMsg("invalid load_diff data")>>
          /\ UNCHANGED <<wsDs, wsResults, wsDecisions>>
     ELSE loadParsed(c, Parse(d), skip)
  /\ UNCHANGED otherThanWs

\* handleWSDecision writing to one decision map that all sessions share.
WsDecisionShared(c, t, dec, ok, i) ==
  /\ driver = "ws"
  /\ wsReq' = Request(c, t, ok, i, <<>>)
  /\ IF wsDs[c].nil
     THEN /\ wsOut' = <<ErrorMsg("no diff loaded")>>
          /\ UNCHANGED wsDecisions
     ELSE IF ~ok
     THEN /\ wsOut' = <<ErrorMsg("invalid decision data")>>
          /\ UNCHANGED wsDecisions
     ELSE IF i < 0 \/ i >= Len(wsDs[c].Files)
     THEN /\ wsOut' = <<ErrorMsg("file_index out of range")>>
          /\ UNCHANGED wsDecisions
     ELSE /\ wsDecisions' = [x \in DOMAIN wsDecisions |-> MapSet(wsDecisions[x], i, dec)]
          /\ wsOut' = <<DecisionMsg(i, IF dec = DecisionRejected
                                       THEN "rejected" ELSE "approved")>>
  /\ UNCHANGED <<wsDs, wsResults>>
  /\ UNCHANGED otherThanWs

\* handleWSDecision for approve (dec = DecisionApproved) and reject
WsDecision(c, t, dec, ok, i) ==
  /\ driver = "ws"
  /\ wsReq' = Request(c, t, ok, i, <<>>)
  /\ IF wsDs[c].nil
     THEN /\ wsOut' = <<ErrorMsg("no diff loaded")>>
          /\ UNCHANGED wsDecisions
     ELSE IF ~ok
     THEN /\ wsOut' = <<ErrorMsg("invalid decision data")>>
          /\ UNCHANGED wsDecisions
     ELSE IF i < 0 \/ i >= Len(wsDs[c].Files)
     THEN /\ wsOut' = <<ErrorMsg("file_index out of range")>>
          /\ UNCHANGED wsDecisions
     ELSE /\ wsDecisions' = [wsDecisions EXCEPT ![c] = MapSet(@, i, dec)]
          /\ wsOut' = <<DecisionMsg(i, IF dec = DecisionRejected
                                       THEN "rejected" ELSE "approved")>>
  /\ UNCHANGED <<wsDs, wsResults>>
  /\ UNCHANGED otherThanWs

WsApprove(c, p) == WsDecision(c, "approve", DecisionApproved, p.ok, p.FileIndex)
WsReject(c, p) == WsDecision(c, "reject", DecisionRejected, p.ok, p.FileIndex)

\* handleWSUndo
WsUndoAt(c, ok, i) ==
  /\ driver = "ws"
  /\ wsReq' = Request(c, "undo", ok, i, <<>>)
  /\ IF wsDs[c].nil
     THEN /\ wsOut' = <<ErrorMsg("no diff loaded")>>
          /\ UNCHANGED wsDecisions
     ELSE IF ~ok
     THEN /\ wsOut' = <<ErrorMsg("invalid undo data")>>
          /\ UNCHANGED wsDecisions
     ELSE /\ wsDecisions' = [wsDecisions EXCEPT ![c] = MapDelete(@, i)]
          /\ wsOut' = <<DecisionMsg(i, "pending")>>
  /\ UNCHANGED <<wsDs, wsResults>>
  /\ UNCHANGED otherThanWs

WsUndo(c, p) == WsUndoAt(c, p.ok, p.FileIndex)

\* The decision names handleWSFinish reports, by file position.
FinishFiles(files, d) ==
  [k \in 1..Len(files) |->
     [Name |-> Name(files[k]),
      Decision |-> CASE DecisionOf(d, k - 1) = DecisionApproved -> "approved"
                     [] DecisionOf(d, k - 1) = DecisionRejected -> "rejected"
                     [] OTHER -> "pending"]]

CountDecision(fds, name) == Cardinality({k \in 1..Len(fds) : fds[k].Decision = name})

\* A summary whose pending count is what approved leaves of the files.
SummaryMsgPendingRest(files, d) ==
  [type |-> "summary",
   Approved |-> CountDecision(FinishFiles(files, d), "approved"),
   Rejected |-> CountDecision(FinishFiles(files, d), "rejected"),
   Pending |-> Len(files) - CountDecision(FinishFiles(files, d), "approved"),
   Files |-> FinishFiles(files, d)]

\* wsSummaryResponse as handleWSFinish fills it
SummaryMsg(files, d) ==
  [type |-> "summary",
   Approved |-> CountDecision(FinishFiles(files, d), "approved"),
   Rejected |-> CountDecision(FinishFiles(files, d), "rejected"),
   Pending |-> CountDecision(FinishFiles(files, d), "pending"),
   Files |-> FinishFiles(files, d)]

\* handleWSFinish without the check for a loaded diff.
WsFinishUnchecked(c) ==
  /\ driver = "ws"
  /\ wsReq' = Request(c, "finish", TRUE, 0, <<>>)
  /\ wsOut' = <<SummaryMsg(wsDs[c].Files, wsDecisions[c])>>
  /\ UNCHANGED <<wsDs, wsResults, wsDecisions>>
  /\ UNCHANGED otherThanWs

\* handleWSFinish
WsFinish(c) ==
  /\ driver = "ws"
  /\ wsReq' = Request(c, "finish", TRUE, 0, <<>>)
  /\ wsOut' = IF wsDs[c].nil THEN <<ErrorMsg("no diff loaded")>>
              ELSE <<SummaryMsg(wsDs[c].Files, wsDecisions[c])>>
  /\ UNCHANGED <<wsDs, wsResults, wsDecisions>>
  /\ UNCHANGED otherThanWs

\* the default case of handleWebSocket's switch, and an unreadable envelope
WsUnknown(c) ==
  /\ driver = "ws"
  /\ wsReq' = Request(c, "unknown", TRUE, 0, <<>>)
  /\ wsOut' = <<ErrorMsg("unknown message type")>>
  /\ UNCHANGED <<wsDs, wsResults, wsDecisions>>
  /\ UNCHANGED otherThanWs

NextWs ==
  \/ \E c \in Conns, ok \in BOOLEAN, d \in WsDiffs, skip \in WsSkips :
       WsLoadDiff(c, ok, d, skip)
  \/ \E c \in Conns, p \in Payloads : WsApprove(c, p)
  \/ \E c \in Conns, p \in Payloads : WsReject(c, p)
  \/ \E c \in Conns, p \in Payloads : WsUndo(c, p)
  \/ \E c \in Conns : WsFinish(c)
  \/ \E c \in Conns : WsUnknown(c)

\* ------------------------------------------- several clients side by side
\* handleWebSocket runs once per connection, each with a session of its own;
\* the handlers of different connections interleave message by message.
Clients == 1..MaxClients

\* What these clients send: a diff of MaxClientFiles files or a text that
\* does not parse; file indices up to the first one out of range.
ClientDiffs == {SessionDiff(MaxClientFiles), HunkMod1}
ClientPayloads == {[ok |-> TRUE, FileIndex |-> i] : i \in 0..MaxClientFiles}

InitWsClients ==
  /\ wsDs = [c \in Clients |-> NoDs]
  /\ wsResults = [c \in Clients |-> NoResults]
  /\ wsDecisions = [c \in Clients |-> EmptyMap]
  /\ wsReq = Request(0, "none", TRUE, 0, <<>>)
  /\ wsOut = <<>>

NextWsClients ==
  \/ \E c \in Clients, d \in ClientDiffs : WsLoadDiff(c, TRUE, d, <<>>)
  \/ \E c \in Clients, p \in ClientPayloads : WsApprove(c, p)
  \/ \E c \in Clients, p \in ClientPayloads : WsReject(c, p)
  \/ \E c \in Clients, p \in ClientPayloads : WsUndo(c, p)
  \/ \E c \in Clients : WsFinish(c)

\* ------------------------------------------- patch reconstruction pipeline
\* Every decision mapping over n files with approved and rejected entries.
DecisionMaps(n) ==
  UNION {[S -> {DecisionApproved, DecisionRejected}] : S \in SUBSET (0..(n - 1))}

PatchKinds == UNION {[1..n -> ChangeKinds] : n \in 0..MaxPatchFiles}

InitPatchIdle ==
  /\ pRaw = <<>>
  /\ pResult = [Files |-> <<>>, Decisions |-> EmptyMap]
  /\ pPatch = <<>>
  /\ pBack = [err |-> FALSE, Files |-> <<>>]
  /\ pStage = "none"
  /\ pMsg = <<>>

\* review.go runReview: the diff is parsed, the session ends with a result
InitPatch ==
  \E ks \in PatchKinds :
    \E d \in DecisionMaps(Len(ks)) :
      /\ pRaw = GitDiff(ks)
      /\ pResult = [Files |-> Parse(pRaw).Files, Decisions |-> d]
      /\ pPatch = <<>>
      /\ pBack = [err |-> FALSE, Files |-> <<>>]
      /\ pStage = "reviewed"
      /\ pMsg = <<>>

\* result.GeneratePatch() for --output-patch
DoGeneratePatch ==
  /\ driver = "apply" /\ pStage = "reviewed"
  /\ pPatch' = GeneratePatch(pResult)
  /\ pStage' = "patched"
  /\ UNCHANGED <<pRaw, pResult, pBack, pMsg>>
  /\ UNCHANGED otherThanPatch

\* the written patch is read back by diff.Parse
DoParsePatch ==
  /\ driver = "apply" /\ pStage = "patched"
  /\ pBack' = Parse(pPatch)
  /\ pStage' = "reparsed"
  /\ UNCHANGED <<pRaw, pResult, pPatch, pMsg>>
  /\ UNCHANGED otherThanPatch

\* result.GenerateCommitMessage() for --commit-msg, after the patch if one
\* was asked for
DoGenerateCommitMessage ==
  /\ driver = "apply" /\ pStage \in {"reviewed", "patched"}
  /\ pMsg' = GenerateCommitMessage(pResult)
  /\ pStage' = "messaged"
  /\ UNCHANGED <<pRaw, pResult, pPatch, pBack>>
  /\ UNCHANGED otherThanPatch

NextPatch == DoGeneratePatch \/ DoParsePatch \/ DoGenerateCommitMessage

\* ------------------------------------------------- internal/cli/check.go
\* The change sets checked: the files are picked from CheckFiles.
CheckSubsets ==
  {S \in SUBSET (1..Len(CheckFiles)) : Cardinality(S) <= MaxCheckFiles}

\* the files of S in ascending order, one diff text
CheckDiff(S) ==
  Flatten(Pick(CheckFiles,
               SelectIdx(Len(CheckFiles), [i \in 1..Len(CheckFiles) |-> i \in S], 1)))

CheckDiffs == {CheckDiff(S) : S \in CheckSubsets} \cup {HunkMod1}

CheckRepos == {NoRepo, CheckRepo}
CheckSkips == {<<>>, <<"security">>, <<"verify", "deleted", "schema", "deleted">>}
Formats == {"text", "json", "markdown", "html"}

NeverRan == [n \in PassNames |-> <<>>]

InitCheckIdle ==
  /\ cRaw = <<>> /\ cRepo = NoRepo /\ cSkip = <<>> /\ cFormat = ""
  /\ cDs = <<>> /\ cTodo = {} /\ cRan = NeverRan /\ cFindings = <<>>
  /\ cStage = "none" /\ cExit = 0 - 1

InitCheck ==
  /\ cRaw \in CheckDiffs /\ cRepo \in CheckRepos /\ cSkip \in CheckSkips
  /\ cFormat = ""
  /\ cDs = <<>> /\ cTodo = {} /\ cRan = NeverRan /\ cFindings = <<>>
  /\ cStage = "start" /\ cExit = 0 - 1

\* The process ends with code n.
exitWith(n) == cStage' = "done" /\ cExit' = n

\* runCheck up to the call of analysis.Run, for what diff.Parse returned:
\* an error ends the process with code 1 (main), no file with code 0.
checkParsed(ds) ==
  IF ds.err THEN exitWith(1) /\ UNCHANGED <<cDs, cTodo>>
  ELSE IF Len(ds.Files) = 0 THEN exitWith(0) /\ UNCHANGED <<cDs, cTodo>>
  ELSE /\ cDs' = ds.Files
       /\ cTodo' = PassNames
       /\ cStage' = "run"
       /\ UNCHANGED cExit

CheckStart ==
  /\ driver = "check" /\ cStage = "start"
  /\ IF cRaw = <<>> THEN exitWith(0) /\ UNCHANGED <<cDs, cTodo>>
     ELSE checkParsed(Parse(cRaw))
  /\ UNCHANGED <<cRaw, cRepo, cSkip, cFormat, cRan, cFindings>>
  /\ UNCHANGED otherThanCheck

\* RunPass that assigns the findings of the pass instead of appending them.
RunPassOverwriting(name) ==
  /\ driver = "check" /\ cStage = "run" /\ name \in cTodo
  /\ cTodo' = cTodo \ {name}
  /\ IF name \in skipSet(cSkip) THEN UNCHANGED <<cRan, cFindings>>
     ELSE \E fs \in PassResults(name, cDs, cRepo) :
            /\ cRan' = [cRan EXCEPT ![name] = Append(@, fs)]
            /\ cFindings' = fs
  /\ UNCHANGED <<cRaw, cRepo, cSkip, cFormat, cDs, cStage, cExit>>
  /\ UNCHANGED otherThanCheck

\* One turn of the range over PassNames in analysis.Run: Go visits the keys
\* of a map in an order it does not specify.
RunPass(name) ==
  /\ driver = "check" /\ cStage = "run" /\ name \in cTodo
  /\ cTodo' = cTodo \ {name}
  /\ IF name \in skipSet(cSkip) THEN UNCHANGED <<cRan, cFindings>>
     ELSE \E fs \in PassResults(name, cDs, cRepo) :
            /\ cRan' = [cRan EXCEPT ![name] = Append(@, fs)]
            /\ cFindings' = cFindings \o fs
  /\ UNCHANGED <<cRaw, cRepo, cSkip, cFormat, cDs, cStage, cExit>>
  /\ UNCHANGED otherThanCheck

\* The end of outputText and of outputHTML: the exit code.
exitByRisk(maxRisk) ==
  IF maxRisk >= RiskHigh THEN exitWith(2)
  ELSE IF maxRisk >= RiskLow THEN exitWith(1)
  ELSE exitWith(0)

\* Run has returned and runCheck reads the --format flag f.
Output(f) ==
  /\ driver = "check" /\ cStage = "run" /\ cTodo = {}
  /\ cFormat' = f
  /\ UNCHANGED <<cRaw, cRepo, cSkip, cDs, cTodo, cRan, cFindings>>
  /\ UNCHANGED otherThanCheck

\* outputText
OutputText ==
  /\ Output("text")
  /\ IF Len(cFindings) = 0 THEN exitWith(0) ELSE exitByRisk(MaxRisk(cFindings))

\* outputJSON: the encoder writes to standard output and the function returns
OutputJSON == Output("json") /\ exitWith(0)

\* outputMarkdown
OutputMarkdown == Output("markdown") /\ exitWith(0)

\* outputHTML
OutputHTML == Output("html") /\ exitByRisk(MaxRisk(cFindings))

NextCheck ==
  \/ CheckStart
  \/ \E name \in PassNames : RunPass(name)
  \/ OutputText
  \/ OutputJSON
  \/ OutputMarkdown
  \/ OutputHTML

\* ------------------------------------------- one pass called on its own
\* Every sequence over the set A with lo to hi elements.
SeqsOf(A, lo, hi) == UNION {[1..n -> A] : n \in lo..hi}

\* Results values with findings of any risk.
RiskCollections ==
  {[k \in 1..Len(rs) |->
      Finding("deps", <<"go.mod">>, k, <<"New go dependency">>,
              SeverityWarning, rs[k])] :
     rs \in SeqsOf(RiskInfo..RiskCritical, 0, MaxFindings)}

\* The lines the hunk of a unit diff is made of.
UnitLines ==
  {Add(<<"func Login(w, r) {">>), Del(<<"func Login(w, r) {">>),
   Ctx(<<"func Login(w, r) {">>), Add(<<"  ", "token = os.environ['API_KEY']">>),
   Add(<<"// TODO: drop the password check">>), Del(<<"func id(v int) int {">>),
   Del(<<"def save(self):">>)}

\* gitdiff rejects a hunk without a change
UnitHunks ==
  {ls \in SeqsOf(UnitLines, 1, MaxUnitLines) :
     \E k \in 1..Len(ls) : ls[k].k # OpContext}

\* One hunk in pkg/auth.go: the file modified, the file renamed from
\* pkg/login.go, and the text of the modified file given twice.
UnitDiff(kind, ls) ==
  CASE kind = "mod" -> ModHeader(<<"pkg/", "auth.go">>) \o Hunk(3, 3, ls)
    [] kind = "ren" -> RenHeader(<<"pkg/", "login.go">>, <<"pkg/", "auth.go">>)
                       \o Hunk(3, 3, ls)
    [] kind = "twice" -> ModHeader(<<"pkg/", "auth.go">>) \o Hunk(3, 3, ls)
                         \o ModHeader(<<"pkg/", "auth.go">>) \o Hunk(3, 3, ls)

UnitDiffs == {UnitDiff(kind, ls) : kind \in {"mod", "ren", "twice"}, ls \in UnitHunks}

\* A working tree around pkg/auth.go: every function is named a times in
\* main.go, once in pkg/auth.go itself and t times in the test next to it;
\* the notes and the vendored copy are not searched.
UnitRepo(a, t) ==
  [root |-> "repo",
   files |-> << RepoFile(<<>>, "main.go", [Login |-> a, id |-> a, save |-> a]),
                RepoFile(<<>>, "notes.md", [Login |-> 9, id |-> 9, save |-> 9]),
                RepoFile(<<"pkg/">>, "auth.go", [Login |-> 1, id |-> 1, save |-> 1]),
                RepoFile(<<"pkg/">>, "auth_test.go",
                         [Login |-> t, id |-> t, save |-> t]),
                RepoFile(<<"vendor/">>, "util.go",
                         [Login |-> 9, id |-> 9, save |-> 9]) >>]

\* reference counts on both sides of the thresholds of BlastRadiusPass and
\* beyond the ceiling of countReferences
RefChoices == {5, 15, 21}

\* ... and in the test: none, one, or enough to pass a threshold or the
\* ceiling in the middle of the walk
TestRefChoices == {0, 1, 6}

UnitRepos == {NoRepo} \cup {UnitRepo(a, t) : a \in RefChoices, t \in TestRefChoices}

\* The lines of a diff searched for repeated blocks.
DupLines == {Add(<<"x := 1">>), Add(<<"y := 2">>), Add(<<"}">>)}

DupHunks ==
  {ls \in SeqsOf(DupLines, windowSize, MaxDupLines) :
     \E k \in 1..Len(ls) : ls[k].k # OpContext}

\* A file that adds one line four times, indented and around a line it
\* keeps, and a new file of another line five times.
DupFileX ==
  ModHeader(<<"b.go">>)
  \o Hunk(1, 1, <<Add(<<"  ", "x := 1">>), Add(<<"  ", "x := 1">>),
                  Ctx(<<"z := 3">>),
                  Add(<<"  ", "x := 1">>), Add(<<"  ", "x := 1">>)>>)
DupFileY ==
  NewHeader(<<"c.go">>)
  \o Hunk(0, 1, [k \in 1..(windowSize + 1) |-> Add(<<"y := 2">>)])

\* A file changed in two fragments: three added lines in the first, a kept
\* line and two added lines in the second.
DupFileH ==
  ModHeader(<<"d.go">>)
  \o Hunk(1, 1, <<Add(<<"y := 2">>), Add(<<"y := 2">>), Add(<<"y := 2">>)>>)
  \o Hunk(5, 8, <<Ctx(<<"z := 3">>), Add(<<"y := 2">>), Add(<<"y := 2">>)>>)

\* What follows the first file of the diff.
DupTails == {<<>>, DupFileX, DupFileY, DupFileX \o DupFileY, DupFileH}

DupDiffs ==
  {ModHeader(<<"a.go">>) \o Hunk(8, 8, ls) \o tail :
     ls \in DupHunks, tail \in DupTails}

InitUnit ==
  /\ uCall = "" /\ uOut = <<>>
  /\ \/ /\ uDs = <<>> /\ uRepo = NoRepo
        /\ uFindings \in RiskCollections
     \/ /\ uDs \in {Parse(d).Files : d \in UnitDiffs}
        /\ uRepo \in UnitRepos
        /\ uFindings = <<>>
     \/ /\ uDs \in {Parse(d).Files : d \in DupDiffs}
        /\ uRepo = NoRepo
        /\ uFindings = <<>>

\* The function fn is called and returns out.
Call(fn, out) ==
  /\ driver = "unit" /\ uCall = ""
  /\ uCall' = fn
  /\ uOut' = out
  /\ UNCHANGED <<uDs, uRepo, uFindings>>
  /\ UNCHANGED otherThanUnit

CallSecurity == Call("SecuritySurfacePass", SecuritySurfacePass(uDs, uRepo))
CallDeleted == Call("DeletedCodePass", DeletedCodePass(uDs, uRepo))
CallBlastRadius == Call("BlastRadiusPass", BlastRadiusPass(uDs, uRepo))
CallAntiPattern ==
  \E out \in AntiPatternPass(uDs, uRepo) : Call("AntiPatternPass", out)
CallMaxRisk == Call("MaxRisk", MaxRisk(uFindings))

NextUnit ==
  \/ CallSecurity
  \/ CallDeleted
  \/ CallBlastRadius
  \/ CallAntiPattern
  \/ CallMaxRisk

\* ---------------------------------------------------------- specifications
InitTuiIdle == InitTuiModel(<<>>, NoTrace)

InitUnitIdle ==
  /\ uDs = <<>> /\ uRepo = NoRepo /\ uFindings = <<>>
  /\ uCall = "" /\ uOut = <<>>

InitAnalysisIdle == InitCheckIdle /\ InitUnitIdle

InitTui ==
  /\ driver = "tui"
  /\ \E n \in 0..MaxFiles, t \in TraceChoices :
       InitTuiModel(Parse(SessionDiff(n)).Files, t)
  /\ InitWsSessions
  /\ InitPatchIdle
  /\ InitAnalysisIdle

InitWs ==
  /\ driver = "ws"
  /\ InitTuiIdle
  /\ InitWsSessions
  /\ InitPatchIdle
  /\ InitAnalysisIdle

InitApply ==
  /\ driver = "apply"
  /\ InitTuiIdle
  /\ InitWsSessions
  /\ InitPatch
  /\ InitAnalysisIdle

InitWsClientsRun ==
  /\ driver = "ws"
  /\ InitTuiIdle
  /\ InitWsClients
  /\ InitPatchIdle
  /\ InitAnalysisIdle

InitUnitRun ==
  /\ driver = "unit"
  /\ InitTuiIdle
  /\ InitWsSessions
  /\ InitPatchIdle
  /\ InitCheckIdle
  /\ InitUnit

InitCheckRun ==
  /\ driver = "check"
  /\ InitTuiIdle
  /\ InitWsSessions
  /\ InitPatchIdle
  /\ InitCheck
  /\ InitUnitIdle

Init == InitTui \/ InitWs
Next == NextTui \/ NextWs

\* a review session, interactive or remote
Spec == Init /\ [][Next]_vars
\* the interactive session alone
SpecTui == InitTui /\ [][NextTui]_vars
\* the remote sessions alone
SpecWs == InitWs /\ [][NextWs]_vars
\* several remote sessions, their messages interleaved
SpecWsClients == InitWsClientsRun /\ [][NextWsClients]_vars
\* agrev check: parse, the passes in any order, the report
SpecCheck == InitCheckRun /\ [][NextCheck]_vars
\* one function of internal/analysis called on a diff and a working tree
SpecUnit == InitUnitRun /\ [][NextUnit]_vars
\* parse, review result, patch, parse again
SpecPatch == InitApply /\ [][NextPatch]_vars

\* ------------------------------------------------------------- properties
\* C1: in a review session over n files, after any approve, reject, undo and
\* navigation keys, DecisionCounts returns approved + rejected + pending = n,
\* and pending is the number of indices that are neither approved nor rejected.
C1_CountsSumToFiles ==
  driver = "tui" =>
    /\ DecisionCounts(diffSet, decisions).approved
         + DecisionCounts(diffSet, decisions).rejected
         + DecisionCounts(diffSet, decisions).pending = Len(diffSet)
    /\ DecisionCounts(diffSet, decisions).pending =
         Cardinality({i \in 0..(Len(diffSet) - 1) :
            ~(i \in DOMAIN decisions
              /\ decisions[i] \in {DecisionApproved, DecisionRejected})})

\* C1 witness: after an undo, one file of each of the three kinds.
C1_Witness ==
  /\ driver = "tui" /\ ev.key = "undo" /\ Len(diffSet) = MaxFiles
  /\ DecisionCounts(diffSet, decisions).approved >= 1
  /\ DecisionCounts(diffSet, decisions).rejected >= 1
  /\ DecisionCounts(diffSet, decisions).pending >= 1

\* C2: after Approve or Reject at active index i the active index is the
\* smallest j > i without a decision, and i itself when every later index is
\* decided (no wrap to a pending file before i).
C2_AutoAdvance ==
  (ev.key \in {"approve", "reject"} /\ ev.view = "review" /\ Len(diffSet) > 0) =>
    fileIndex =
      IF {j \in (ev.at + 1)..(Len(diffSet) - 1) : j \notin DOMAIN decisions} = {}
      THEN ev.at
      ELSE CHOOSE j \in (ev.at + 1)..(Len(diffSet) - 1) :
             /\ j \notin DOMAIN decisions
             /\ \A k \in (ev.at + 1)..(Len(diffSet) - 1) :
                  k \notin DOMAIN decisions => j <= k

\* C2 witness: a decision on the last file while the first is still pending;
\* the active index stays on the last file.
C2_Witness ==
  /\ ev.key \in {"approve", "reject"} /\ ev.view = "review"
  /\ Len(diffSet) = MaxFiles /\ ev.at = MaxFiles - 1 /\ fileIndex = ev.at
  /\ 0 \notin DOMAIN decisions

\* C3: approve sets the targeted index to approved and reject to rejected
\* whatever it held, undo sets it to pending, and none of the three changes
\* the decision of another index (interactive and remote sessions).
C3_DecisionStateMachine ==
  [][/\ (ev'.key \in DecisionKeys /\ ev'.view = "review" /\ Len(diffSet) > 0) =>
          /\ DecisionOf(decisions', fileIndex) =
               (CASE ev'.key = "approve" -> DecisionApproved
                  [] ev'.key = "reject" -> DecisionRejected
                  [] OTHER -> DecisionPending)
          /\ DOMAIN decisions' \ {fileIndex} = DOMAIN decisions \ {fileIndex}
          /\ \A j \in DOMAIN decisions \ {fileIndex} : decisions'[j] = decisions[j]
     /\ (wsReq'.type \in DecisionKeys) =>
          /\ (wsReq'.ok /\ ~wsDs[wsReq'.conn].nil
              /\ wsReq'.FileIndex \in 0..(Len(wsDs[wsReq'.conn].Files) - 1)) =>
               DecisionOf(wsDecisions'[wsReq'.conn], wsReq'.FileIndex) =
                 (CASE wsReq'.type = "approve" -> DecisionApproved
                    [] wsReq'.type = "reject" -> DecisionRejected
                    [] OTHER -> DecisionPending)
          /\ \A c \in Conns :
               /\ DOMAIN wsDecisions'[c] \ {wsReq'.FileIndex}
                    = DOMAIN wsDecisions[c] \ {wsReq'.FileIndex}
               /\ \A j \in DOMAIN wsDecisions[c] \ {wsReq'.FileIndex} :
                    wsDecisions'[c][j] = wsDecisions[c][j]
               /\ c # wsReq'.conn => wsDecisions'[c] = wsDecisions[c]
    ]_vars

\* C3 witness: a reject on the second file, next to an approved first file
\* and a pending third one.
C3_Witness ==
  /\ ev.key = "reject" /\ ev.view = "review" /\ ev.at = 1
  /\ Len(diffSet) = MaxFiles
  /\ DOMAIN decisions = {0, 1}
  /\ decisions[0] = DecisionApproved /\ decisions[1] = DecisionRejected

\* C4: Undo on file i leaves i without a decision and the active index where
\* it was; on a file that is already pending it changes neither the mapping
\* nor the active index.
C4_UndoKeepsActiveFile ==
  [][/\ (ev'.key = "undo" /\ ev'.view = "review" /\ Len(diffSet) > 0) =>
          /\ fileIndex' = fileIndex
          /\ fileIndex \notin DOMAIN decisions'
          /\ fileIndex \notin DOMAIN decisions => decisions' = decisions
     /\ (wsReq'.type = "undo" /\ wsReq'.ok /\ ~wsDs[wsReq'.conn].nil) =>
          /\ wsReq'.FileIndex \notin DOMAIN wsDecisions'[wsReq'.conn]
          /\ wsReq'.FileIndex \notin DOMAIN wsDecisions[wsReq'.conn]
               => wsDecisions' = wsDecisions
    ]_vars

\* C4 witness: an undo on the second file, which is pending and active
\* afterwards, while the first file keeps its decision.
C4_Witness ==
  /\ ev.key = "undo" /\ ev.view = "review" /\ ev.at = 1 /\ fileIndex = 1
  /\ DOMAIN decisions = {0}

\* C5: GeneratePatch holds one file section for each approved file and no
\* other, in file order; rejected and pending files contribute no line; the
\* text is empty exactly when no file is approved.
C5_PatchIsApprovedFiles ==
  pStage \in {"patched", "reparsed"} =>
    LET files == pResult.Files
        appr == {k \in 1..Len(files) :
                   /\ (k - 1) \in DOMAIN pResult.Decisions
                   /\ pResult.Decisions[k - 1] = DecisionApproved}
        nth(x) == CHOOSE k \in appr : Cardinality({m \in appr : m < k}) = x - 1
        heads == SelectSeq(pPatch, LAMBDA l : l.k = "diff")
    IN /\ Len(heads) = Cardinality(appr)
       /\ \A x \in 1..Len(heads) : heads[x].a = Name(files[nth(x)])
       /\ pPatch = Flatten([x \in 1..Cardinality(appr) |->
                              formatFilePatch(files[nth(x)])])
       /\ (pPatch = <<>>) <=> (appr = {})

\* C5 witness: a patch written for a rejected first and an approved second file.
C5_Witness ==
  /\ pStage = "patched" /\ Len(pResult.Files) = 2
  /\ DOMAIN pResult.Decisions = {0, 1}
  /\ pResult.Decisions[0] = DecisionRejected
  /\ pResult.Decisions[1] = DecisionApproved
  /\ pPatch # <<>>

\* C6: for a valid diff d whose files are all approved, parsing the text of
\* GeneratePatch gives as many files as Parse(d), with the same names in the
\* same order and the same added and deleted line counts per file.
C6_RoundTrip ==
  (/\ pStage = "reparsed"
   /\ \A k \in 0..(Len(pResult.Files) - 1) :
        DecisionOf(pResult.Decisions, k) = DecisionApproved) =>
    /\ ~pBack.err
    /\ Len(pBack.Files) = Len(pResult.Files)
    /\ \A k \in 1..Len(pResult.Files) :
         /\ Name(pBack.Files[k]) = Name(pResult.Files[k])
         /\ pBack.Files[k].AddedLines = pResult.Files[k].AddedLines
         /\ pBack.Files[k].DeletedLines = pResult.Files[k].DeletedLines

\* C6 witness: the patch of an approved rename parsed back; the file that was
\* named "old -> new" comes back under its new name alone.
C6_Witness ==
  /\ pStage = "reparsed" /\ Len(pResult.Files) = 1
  /\ DecisionOf(pResult.Decisions, 0) = DecisionApproved
  /\ pResult.Files[1].IsRenamed
  /\ ~pBack.err /\ Len(pBack.Files) = 1
  /\ Name(pBack.Files[1]) = pResult.Files[1].NewName
  /\ Name(pBack.Files[1]) # Name(pResult.Files[1])

\* C7: with a diff of n files loaded, an approve, reject or undo request
\* whose file index is below 0 or at least n is answered by the out-of-range
\* error alone and leaves the decision mapping as it was.
C7_OutOfRangeRejected ==
  [][(/\ wsReq'.type \in DecisionKeys /\ wsReq'.ok
      /\ ~wsDs[wsReq'.conn].nil
      /\ wsReq'.FileIndex \notin 0..(Len(wsDs[wsReq'.conn].Files) - 1)) =>
       /\ wsOut' = <<ErrorMsg("file_index out of range")>>
       /\ wsDecisions' = wsDecisions
    ]_vars

\* C7 witness: an undo for index -1 on a loaded session, answered with a
\* decision notification.
C7_Witness ==
  /\ wsReq.type = "undo" /\ wsReq.ok /\ wsReq.FileIndex = 0 - 1
  /\ ~wsDs[wsReq.conn].nil
  /\ wsOut = <<DecisionMsg(0 - 1, "pending")>>

\* C8: on a connection without a loaded diff every approve, reject, undo and
\* finish request is answered by an error alone (no decision notification,
\* no summary) and leaves the session as it was.
C8_NoDiffLoaded ==
  [][(/\ wsReq'.type \in {"approve", "reject", "undo", "finish"}
      /\ wsDs[wsReq'.conn].nil) =>
       /\ Len(wsOut') = 1 /\ wsOut'[1].type = "error"
       /\ wsOut' = <<ErrorMsg("no diff loaded")>>
       /\ UNCHANGED <<wsDs, wsResults, wsDecisions>>
    ]_vars

\* C8 witness: a finish request on a session that holds no diff, answered by
\* the error.
C8_Witness ==
  /\ wsReq.type = "finish" /\ wsDs[wsReq.conn].nil
  /\ wsOut = <<ErrorMsg("no diff loaded")>>

\* C9: a load_diff whose text does not parse is answered by an error alone
\* (no parsed, no analysis notification); the session's diff, results and
\* decisions stay what they were.
C9_FailedLoadChangesNothing ==
  [][(wsReq'.type = "load_diff" /\ wsReq'.ok /\ Parse(wsReq'.diff).err) =>
       /\ Len(wsOut') = 1 /\ wsOut'[1].type = "error"
       /\ UNCHANGED <<wsDs, wsResults, wsDecisions>>
    ]_vars

\* C9 witness: a malformed text sent to a session that holds a diff and a
\* decision, both still there after the error.
C9_Witness ==
  /\ wsReq.type = "load_diff" /\ wsReq.ok /\ wsReq.diff \in MalformedDiffs
  /\ wsOut = <<ErrorMsg("parsing diff")>>
  /\ ~wsDs[wsReq.conn].nil /\ ~wsResults[wsReq.conn].nil
  /\ wsDecisions[wsReq.conn] # EmptyMap

\* C10: finish on a loaded session sends one summary: an entry per file, in
\* file order, with the file's name and current decision; each count is the
\* number of entries with that decision and the three sum to the file count;
\* the decision mapping is left as it was.
C10_FinishSummary ==
  [][(wsReq'.type = "finish" /\ ~wsDs[wsReq'.conn].nil) =>
       LET files == wsDs[wsReq'.conn].Files
           d == wsDecisions[wsReq'.conn]
           s == wsOut'[1]
           dec(k) == IF k \in DOMAIN d /\ d[k] = DecisionApproved THEN "approved"
                     ELSE IF k \in DOMAIN d /\ d[k] = DecisionRejected THEN "rejected"
                     ELSE "pending"
           cnt(x) == Cardinality({k \in 1..Len(s.Files) : s.Files[k].Decision = x})
       IN /\ Len(wsOut') = 1 /\ s.type = "summary"
          /\ Len(s.Files) = Len(files)
          /\ \A k \in 1..Len(files) :
               s.Files[k] = [Name |-> Name(files[k]), Decision |-> dec(k - 1)]
          /\ s.Approved = cnt("approved")
          /\ s.Rejected = cnt("rejected")
          /\ s.Pending = cnt("pending")
          /\ s.Approved + s.Rejected + s.Pending = Len(files)
          /\ wsDecisions' = wsDecisions
    ]_vars

\* C10 witness: a summary with an approved and a rejected file.
C10_Witness ==
  /\ wsReq.type = "finish" /\ Len(wsOut) = 1 /\ wsOut[1].type = "summary"
  /\ Len(wsOut[1].Files) = MaxWsFiles
  /\ wsOut[1].Approved = 1 /\ wsOut[1].Rejected = 1

\* C11: with several connections whose messages interleave, a load_diff,
\* approve, reject or undo (or any other message) on one connection leaves
\* the diff, results and decisions of every other connection as they were;
\* a decision notification and a finish summary are made of the session of
\* the connection that asked, whatever the other sessions hold.
C11_SessionsIsolated ==
  [][/\ \A c \in Clients \ {wsReq'.conn} :
          /\ wsDs'[c] = wsDs[c]
          /\ wsResults'[c] = wsResults[c]
          /\ wsDecisions'[c] = wsDecisions[c]
     /\ (wsReq'.type \in {"approve", "reject"} /\ wsOut'[1].type = "decision") =>
          /\ wsOut'[1].FileIndex = wsReq'.FileIndex
          /\ wsOut'[1].Decision = wsReq'.type \o (IF wsReq'.type = "approve" THEN "d" ELSE "ed")
          /\ wsReq'.FileIndex \in 0..(Len(wsDs[wsReq'.conn].Files) - 1)
     /\ (wsReq'.type = "finish" /\ ~wsDs[wsReq'.conn].nil) =>
          /\ Len(wsOut'[1].Files) = Len(wsDs[wsReq'.conn].Files)
          /\ \A k \in 1..Len(wsOut'[1].Files) :
               wsOut'[1].Files[k].Decision =
                 (IF (k - 1) \notin DOMAIN wsDecisions[wsReq'.conn] THEN "pending"
                  ELSE IF wsDecisions[wsReq'.conn][k - 1] = DecisionApproved
                  THEN "approved" ELSE "rejected")
    ]_vars

\* C11 witness: the first client's summary reports its approval while the
\* second client holds a rejection of the same file index.
C11_Witness ==
  /\ wsReq.type = "finish" /\ wsReq.conn = 1
  /\ Len(wsOut) = 1 /\ wsOut[1].type = "summary" /\ wsOut[1].Approved = 1
  /\ ~wsDs[2].nil /\ DecisionOf(wsDecisions[2], 0) = DecisionRejected

\* C12: a load_diff that parses is answered by exactly one parsed
\* notification followed by exactly one analysis notification, all sent
\* before the next message of the connection is read; a later valid approve
\* or reject by exactly one decision notification, a finish by exactly one
\* summary.
C12_NotificationOrder ==
  /\ (wsReq.type = "load_diff" /\ wsReq.ok /\ ~Parse(wsReq.diff).err) =>
       /\ Len(wsOut) = 2
       /\ wsOut[1].type = "parsed" /\ wsOut[2].type = "analysis"
  /\ (/\ wsReq.type \in {"approve", "reject"} /\ wsReq.ok
      /\ ~wsDs[wsReq.conn].nil
      /\ wsReq.FileIndex \in 0..(Len(wsDs[wsReq.conn].Files) - 1)) =>
       Len(wsOut) = 1 /\ wsOut[1].type = "decision"
  /\ (wsReq.type = "finish" /\ ~wsDs[wsReq.conn].nil) =>
       Len(wsOut) = 1 /\ wsOut[1].type = "summary"

\* C12 witness: the answer to a load of a diff of MaxWsFiles files.
C12_Witness ==
  /\ wsReq.type = "load_diff" /\ wsReq.ok
  /\ Len(wsDs[wsReq.conn].Files) = MaxWsFiles
  /\ Len(wsOut) = 2 /\ wsOut[1].type = "parsed" /\ wsOut[2].type = "analysis"
  /\ wsOut[1].Stats.files = MaxWsFiles

\* C13: analysis.Run calls every registered pass that the skip list does not
\* name exactly once and no pass that it names; when Run has returned, the
\* result holds every finding the passes it called returned and nothing else,
\* so no finding whose Pass field names a skipped pass; a name in the skip
\* list that no pass is registered under changes nothing.
C13_RunHonoursSkip ==
  LET skipped == {cSkip[k] : k \in 1..Len(cSkip)} \cap PassNames
      order == <<"deps", "security", "deleted", "schema", "anti_patterns",
                 "blast_radius">>
      Count(s, x) == Cardinality({k \in 1..Len(s) : s[k] = x})
      returned == \/ cStage = "run" /\ cTodo = {}
                  \/ cStage = "done" /\ cFormat # ""
  IN /\ \A n \in PassNames :
          /\ Len(cRan[n]) <= 1
          /\ n \in skipped => Len(cRan[n]) = 0
          /\ \A c \in 1..Len(cRan[n]) : cRan[n][c] \in PassResults(n, cDs, cRepo)
     /\ \A k \in 1..Len(cFindings) : cFindings[k].Pass \notin skipped
     /\ returned =>
          /\ \A n \in PassNames : Len(cRan[n]) = IF n \in skipped THEN 0 ELSE 1
          /\ \A n \in PassNames \ skipped :
               \A k \in 1..Len(cRan[n][1]) :
                  Count(cFindings, cRan[n][1][k]) >= Count(cRan[n][1], cRan[n][1][k])
          /\ Len(cFindings)
               = SeqSum([i \in 1..6 |->
                           IF order[i] \in skipped THEN 0
                           ELSE Len(cRan[order[i]][1])])

\* A run has returned whose skip list names two passes, one of them twice,
\* and a name that is no pass; the deleted pass, skipped, would have reported
\* a function, and the passes that ran reported findings.
C13_Witness ==
  /\ cStage = "done" /\ cFormat # ""
  /\ cSkip = <<"verify", "deleted", "schema", "deleted">>
  /\ Len(DeletedCodePass(cDs, cRepo)) > 0
  /\ Len(cFindings) > 0
  /\ Len(cRan["security"]) = 1 /\ Len(cRan["deleted"]) = 0

\* C14: whatever order the range over PassNames takes, Run returns the same
\* findings up to their order: as many of every finding as the passes give
\* when called in the order of AllPasses, hence the same MaxRisk, the same
\* Summary and the same total; and the DiffSet is after Run what diff.Parse
\* made of the text.
C14_OrderIndependent ==
  LET skipped == {cSkip[k] : k \in 1..Len(cSkip)}
      AllPasses == <<"deps", "security", "deleted", "schema", "anti_patterns",
                     "blast_radius">>
      Count(s, x) == Cardinality({k \in 1..Len(s) : s[k] = x})
      SameUpToOrder(a, b) ==
        /\ Len(a) = Len(b)
        /\ \A k \in 1..Len(a) : Count(a, a[k]) = Count(b, a[k])
        /\ MaxRisk(a) = MaxRisk(b)
        /\ Summary(a) = Summary(b)
  IN (\/ cStage = "run" /\ cTodo = {}
      \/ cStage = "done" /\ cFormat # "")
     => /\ SameUpToOrder(
             cFindings,
             Flatten([i \in 1..6 |->
                        IF AllPasses[i] \in skipped THEN <<>>
                        ELSE CHOOSE r \in PassResults(AllPasses[i], cDs, cRepo) :
                               TRUE]))
        /\ cDs = Parse(cRaw).Files

\* Run has returned after it called the blast-radius pass before the
\* security pass and that one before the dependency pass, each of which
\* reported something: the findings are not in the order of AllPasses.
C14_Witness ==
  /\ cStage = "run" /\ cTodo = {}
  /\ Len(cFindings) >= 3
  /\ cFindings[1].Pass = "blast_radius"
  /\ \E i, j \in 1..Len(cFindings) :
       i < j /\ cFindings[i].Pass = "security" /\ cFindings[j].Pass = "deps"

\* C15: Results.MaxRisk returns the greatest RiskLevel among the findings in
\* the order info < low < medium < high < critical, and info when there is no
\* finding.
C15_MaxRiskIsMaximum ==
  uCall = "MaxRisk" =>
    /\ RiskInfo < RiskLow /\ RiskLow < RiskMedium /\ RiskMedium < RiskHigh
    /\ RiskHigh < RiskCritical
    /\ Len(uFindings) = 0 => uOut = RiskInfo
    /\ Len(uFindings) > 0 =>
         /\ \E k \in 1..Len(uFindings) : uFindings[k].Risk = uOut
         /\ \A k \in 1..Len(uFindings) : uFindings[k].Risk <= uOut

\* MaxRisk was asked of findings of high, critical and low risk, in this
\* order, and returned critical.
C15_Witness ==
  /\ uCall = "MaxRisk"
  /\ Len(uFindings) = 3
  /\ uFindings[1].Risk = RiskHigh /\ uFindings[2].Risk = RiskCritical
  /\ uFindings[3].Risk = RiskLow
  /\ uOut = RiskCritical

\* C16: for each output format (text, json, markdown, html) agrev check ends
\* with exit code 0 when the analysis produced no finding, 1 when it produced
\* findings that are all below high risk, and 2 when a finding is of high or
\* critical risk.
C16_ExitCodeByRisk ==
  (cStage = "done" /\ cFormat \in {"text", "json", "markdown", "html"}) =>
    cExit = IF Len(cFindings) = 0 THEN 0
            ELSE IF \E k \in 1..Len(cFindings) : cFindings[k].Risk >= RiskHigh
            THEN 2
            ELSE 1

\* The report was written as JSON for an analysis with a finding of high
\* risk, and the process ended with exit code 0.
C16_Witness ==
  /\ cStage = "done" /\ cFormat = "json"
  /\ \E k \in 1..Len(cFindings) : cFindings[k].Risk >= RiskHigh
  /\ cExit = 0

\* C17: SecuritySurfacePass returns at most one finding per file, added line
\* and category: exactly one when the line is not a comment and some pattern
\* of the category matches it, however many of them do, and none otherwise;
\* every finding returned is of this kind, and no two findings returned have
\* the same file, line and message.
C17_OneFindingPerCategory ==
  LET Same(x, y) == x.File = y.File /\ x.Line = y.Line /\ x.Message = y.Message
      At(name, l, c) ==
        {k \in 1..Len(uOut) :
           /\ uOut[k].File = name /\ uOut[k].Line = l.newNum
           /\ uOut[k].Message = securityMessage(c, l.Line)}
      Reported(l, c) ==
        /\ l.Op = OpAdd
        /\ ~LineFacts(l.Line).comment
        /\ \E p \in 1..securityPatterns[c].patterns : <<c, p>> \in LineFacts(l.Line).sec
      LinesOk(name, ls) ==
        \A k \in 1..Len(ls), c \in 1..Len(securityPatterns) :
          ls[k].Op = OpAdd =>
            /\ Cardinality(At(name, ls[k], c)) <= 1
            /\ Reported(ls[k], c) => Cardinality(At(name, ls[k], c)) = 1
      FromLine(x, name, ls) ==
        \E k \in 1..Len(ls), c \in 1..Len(securityPatterns) :
          /\ Reported(ls[k], c)
          /\ x.File = name /\ x.Line = ls[k].newNum
          /\ x.Message = securityMessage(c, ls[k].Line)
          /\ x.Risk = securityPatterns[c].risk
  IN uCall = "SecuritySurfacePass" =>
       /\ \A i \in 1..Len(uDs) : LinesOk(Name(uDs[i]), FileLines(uDs[i]))
       /\ \A k \in 1..Len(uOut) :
            \E i \in 1..Len(uDs) : FromLine(uOut[k], Name(uDs[i]), FileLines(uDs[i]))
       /\ \A j, k \in 1..Len(uOut) : j # k => ~Same(uOut[j], uOut[k])

\* The pass was called on a diff that gives the same file twice, each time
\* with an added line that two patterns of one category and a pattern of
\* another match, after an added comment that names a password: it returned
\* two findings, one per category, both for the second line.
C17_Witness ==
  /\ uCall = "SecuritySurfacePass"
  /\ Len(uDs) = 2 /\ Name(uDs[1]) = Name(uDs[2])
  /\ Len(uDs[1].Fragments[1].Lines) = 2
  /\ uDs[1].Fragments[1].Lines[1].Line = <<"// TODO: drop the password check">>
  /\ uDs[1].Fragments[1].Lines[2].Line = <<"  ", "token = os.environ['API_KEY']">>
  /\ Len(uOut) = 2
  /\ uOut[1].Line = 4 /\ uOut[2].Line = 4
  /\ uOut[1].Risk = RiskHigh /\ uOut[2].Risk = RiskMedium

\* C18: DeletedCodePass returns exactly one finding for each deleted line
\* whose text matches a function-definition pattern, in the order of the
\* lines: of error severity and high risk when a test file next to the
\* changed file names the function, of info severity and low risk otherwise;
\* added and context lines give no finding; without a repository root every
\* finding is of info severity and low risk.
C18_DeletedFunctions ==
  LET Tested(f, name) ==
        /\ uRepo.root # ""
        /\ \E k \in 1..Len(uRepo.files) :
             /\ uRepo.files[k].dir \in {Dir(f.OldName), Dir(f.NewName)}
             /\ \E g \in 1..3 : baseMatchesGlob(g, uRepo.files[k].base)
             /\ Refs(uRepo.files[k], name) > 0
      Defines(l) == l.Op = OpDelete /\ LineFacts(l.Line).fn # {}
      NameIn(l) == (CHOOSE x \in LineFacts(l.Line).fn :
                      \A y \in LineFacts(l.Line).fn : x[1] <= y[1])[2]
      Expected(f, ls) ==
        Flatten([k \in 1..Len(ls) |->
          IF Defines(ls[k])
          THEN <<[Line |-> ls[k].oldNum,
                  Severity |-> IF Tested(f, NameIn(ls[k]))
                               THEN SeverityError ELSE SeverityInfo,
                  Risk |-> IF Tested(f, NameIn(ls[k]))
                           THEN RiskHigh ELSE RiskLow]>>
          ELSE <<>>])
  IN uCall = "DeletedCodePass" =>
       /\ [k \in 1..Len(uOut) |->
             [Line |-> uOut[k].Line, Severity |-> uOut[k].Severity,
              Risk |-> uOut[k].Risk]]
          = Flatten([i \in 1..Len(uDs) |-> Expected(uDs[i], FileLines(uDs[i]))])
       /\ uRepo.root = "" =>
            \A k \in 1..Len(uOut) :
               uOut[k].Severity = SeverityInfo /\ uOut[k].Risk = RiskLow

\* The pass was called on the diff of a file renamed inside pkg/ that deletes
\* func Login, with a test next to it that names Login: it returned one
\* finding, of info severity and low risk.
C18_Witness ==
  /\ uCall = "DeletedCodePass"
  /\ Len(uDs) = 1 /\ uDs[1].IsRenamed
  /\ Len(uDs[1].Fragments[1].Lines) = 1
  /\ uDs[1].Fragments[1].Lines[1] = [Op |-> OpDelete, Line |-> <<"func Login(w, r) {">>]
  /\ uRepo.root # ""
  /\ \E k \in 1..Len(uRepo.files) :
       /\ Rel(uRepo.files[k]) = <<"pkg/", "auth_test.go">>
       /\ Refs(uRepo.files[k], "Login") > 0
  /\ Len(uOut) = 1
  /\ uOut[1].Severity = SeverityInfo /\ uOut[1].Risk = RiskLow

\* C19: BlastRadiusPass returns nothing when the repository root is empty;
\* otherwise, per file and for each distinct function name defined on its
\* added and deleted lines, with c the number of references to the name
\* outside the file under review: one finding of high risk when c > 15, one of
\* medium risk when 5 < c <= 15, none when c <= 5; a name shorter than three
\* characters gives no finding.
C19_BlastRadiusThresholds ==
  LET Searched(rf) == isSourceFile(rf.base) /\ ~skippedDir(rf.dir)
      Outside(f, name) ==
        SeqSum([k \in 1..Len(uRepo.files) |->
                  IF Searched(uRepo.files[k])
                     /\ Rel(uRepo.files[k]) \notin {f.OldName, f.NewName}
                  THEN Refs(uRepo.files[k], name) ELSE 0])
      Defined(ls) ==
        Flatten([k \in 1..Len(ls) |->
          IF ls[k].Op = OpContext THEN <<>>
          ELSE [p \in 1..Cardinality(LineFacts(ls[k].Line).fn) |->
                  (CHOOSE x \in LineFacts(ls[k].Line).fn : TRUE)[2]]])
      Distinct(ns) ==
        Pick(ns, SelectIdx(Len(ns),
                           [k \in 1..Len(ns) |-> \A j \in 1..(k - 1) : ns[j] # ns[k]],
                           1))
      Rated(f, ns) ==
        Flatten([k \in 1..Len(ns) |->
          IF NameLen(ns[k]) < 3 \/ Outside(f, ns[k]) <= 5 THEN <<>>
          ELSE <<[File |-> Name(f), Function |-> ns[k],
                  Risk |-> IF Outside(f, ns[k]) > 15 THEN RiskHigh
                           ELSE RiskMedium]>>])
  IN uCall = "BlastRadiusPass" =>
       IF uRepo.root = "" THEN uOut = <<>>
       ELSE [k \in 1..Len(uOut) |->
               [File |-> uOut[k].File, Function |-> uOut[k].Message[2],
                Risk |-> uOut[k].Risk]]
            = Flatten([i \in 1..Len(uDs) |->
                         Rated(uDs[i], Distinct(Defined(FileLines(uDs[i]))))])

\* The pass was called on the diff of a file renamed to pkg/auth.go that adds
\* func Login, in a repository that names Login five times outside that file
\* and once inside it: it returned a finding of medium risk that counts six
\* references.
C19_Witness ==
  /\ uCall = "BlastRadiusPass"
  /\ Len(uDs) = 1 /\ uDs[1].IsRenamed
  /\ uDs[1].NewName = <<"pkg/", "auth.go">>
  /\ Len(uDs[1].Fragments[1].Lines) = 1
  /\ uDs[1].Fragments[1].Lines[1] = [Op |-> OpAdd, Line |-> <<"func Login(w, r) {">>]
  /\ uRepo = UnitRepo(5, 0)
  /\ Len(uOut) = 1
  /\ uOut[1].Risk = RiskMedium
  /\ uOut[1].Message[4] = "6"

\* C20: among the added lines of each file that are not blank or a single
\* bracket, taken in order, every run of four is a window.  For a window
\* whose four texts, trimmed, occur k >= 2 times across the diff the
\* anti-pattern pass returns exactly k - 1 duplication findings of medium
\* risk, one at every occurrence after the first in file order, each naming
\* the file and line of the first occurrence; a window that occurs once gives
\* none.
C20_DuplicationFindings ==
  LET Counted(l) ==
        /\ l.Op = OpAdd
        /\ TrimSpace(l.Line) \notin {<<>>, <<"{">>, <<"}">>, <<")">>, <<"(">>}
      Stream(ls) == Pick(ls, SelectIdx(Len(ls), [k \in 1..Len(ls) |-> Counted(ls[k])], 1))
      Windows(name, st) ==
        [i \in 1..(IF Len(st) >= 4 THEN Len(st) - 3 ELSE 0) |->
           [texts |-> [j \in 1..4 |-> TrimSpace(st[i + j - 1].Line)],
            file |-> name, line |-> st[i].newNum]]
      IsDup(x) == x.Message[1] = "Near-duplicate code block (also at "
      Dups(out) == Pick(out, SelectIdx(Len(out), [k \in 1..Len(out) |-> IsDup(out[k])], 1))
      First(occ, j) ==
        occ[CHOOSE i \in 1..j :
              /\ occ[i].texts = occ[j].texts
              /\ \A h \in 1..(i - 1) : occ[h].texts # occ[j].texts]
      Holds(occ, dups) ==
        /\ \A j \in 1..Len(occ) :
             Cardinality({k \in 1..Len(dups) :
                            /\ dups[k].File = occ[j].file
                            /\ dups[k].Line = occ[j].line})
               = IF \E i \in 1..(j - 1) : occ[i].texts = occ[j].texts
                 THEN 1 ELSE 0
        /\ \A k \in 1..Len(dups) :
             \E j \in 1..Len(occ) :
               /\ dups[k].File = occ[j].file /\ dups[k].Line = occ[j].line
               /\ dups[k].Message
                    = <<"Near-duplicate code block (also at ">>
                      \o First(occ, j).file
                      \o <<":", ToString(First(occ, j).line), ")">>
               /\ dups[k].Risk = RiskMedium
               /\ dups[k].Pass = "anti_patterns"
  IN uCall = "AntiPatternPass" =>
       Holds(Flatten([i \in 1..Len(uDs) |->
                        Windows(Name(uDs[i]), Stream(FileLines(uDs[i])))]),
             Dups(uOut))

\* The pass was called on a diff of three files: the first adds a bracket and
\* one line four times, the second the same line, indented, twice before and
\* twice after a line it keeps, the third another line five times.  It
\* returned two findings: one in the second file that names line 9 of the
\* first, one at the second window of the third file that names its first.
C20_Witness ==
  /\ uCall = "AntiPatternPass"
  /\ Len(uDs) = 3
  /\ Len(FileLines(uDs[1])) = 5
  /\ [k \in 1..5 |-> FileLines(uDs[1])[k].Line]
       = <<<<"}">>, <<"x := 1">>, <<"x := 1">>, <<"x := 1">>, <<"x := 1">>>>
  /\ Len(uOut) = 2
  /\ \E k \in 1..2 :
       /\ uOut[k].File = <<"b.go">> /\ uOut[k].Line = 1
       /\ uOut[k].Message = <<"Near-duplicate code block (also at ", "a.go", ":", "9", ")">>
  /\ \E k \in 1..2 :
       /\ uOut[k].File = <<"c.go">> /\ uOut[k].Line = 2
       /\ uOut[k].Message = <<"Near-duplicate code block (also at ", "c.go", ":", "1", ")">>

\* C21 as stated: every window of the duplication check is four added lines
\* of a single fragment of a single file.  Seen from the findings: the line a
\* duplication finding is reported at is followed, inside its own fragment,
\* by at least three more added lines that are not blank or a single bracket.
C21_WindowsWithinOneHunk ==
  LET Counted(l) ==
        /\ l.Op = OpAdd
        /\ TrimSpace(l.Line) \notin {<<>>, <<"{">>, <<"}">>, <<")">>, <<"(">>}
      CountedFrom(fr, line) ==
        Cardinality({k \in 1..Len(fr.Lines) :
                       /\ Counted(fr.Lines[k])
                       /\ NewLineNum(fr, k) >= line})
      StartsIn(fr, line) ==
        \E k \in 1..Len(fr.Lines) :
          Counted(fr.Lines[k]) /\ NewLineNum(fr, k) = line
      IsDup(x) == x.Message[1] = "Near-duplicate code block (also at "
  IN uCall = "AntiPatternPass" =>
       \A n \in 1..Len(uOut) :
         IsDup(uOut[n]) =>
           \E i \in 1..Len(uDs) :
             /\ Name(uDs[i]) = uOut[n].File
             /\ \E h \in 1..Len(uDs[i].Fragments) :
                  /\ StartsIn(uDs[i].Fragments[h], uOut[n].Line)
                  /\ CountedFrom(uDs[i].Fragments[h], uOut[n].Line) >= 4

\* C21, amended: every window of the duplication check is four added lines
\* of a single file, taken from the file's fragments in order; a window may
\* run from the end of one fragment into the next fragment of the same file,
\* never into another file.  Seen from the findings: the line a duplication
\* finding is reported at is an added line of the file it names and is
\* followed, in that file, by at least three more added lines that are not
\* blank or a single bracket.
C21_WindowsWithinOneFile ==
  LET Counted(l) ==
        /\ l.Op = OpAdd
        /\ TrimSpace(l.Line) \notin {<<>>, <<"{">>, <<"}">>, <<")">>, <<"(">>}
      After(fs, h, k) ==
        Cardinality({q \in UNION {{<<a, b>> : b \in 1..Len(fs[a].Lines)} :
                                     a \in 1..Len(fs)} :
                       /\ Counted(fs[q[1]].Lines[q[2]])
                       /\ \/ q[1] > h
                          \/ q[1] = h /\ q[2] > k})
      IsDup(x) == x.Message[1] = "Near-duplicate code block (also at "
  IN uCall = "AntiPatternPass" =>
       \A n \in 1..Len(uOut) :
         IsDup(uOut[n]) =>
           \E i \in 1..Len(uDs) :
             /\ Name(uDs[i]) = uOut[n].File
             /\ \E h \in 1..Len(uDs[i].Fragments) :
                  \E k \in 1..Len(uDs[i].Fragments[h].Lines) :
                    /\ Counted(uDs[i].Fragments[h].Lines[k])
                    /\ NewLineNum(uDs[i].Fragments[h], k) = uOut[n].Line
                    /\ After(uDs[i].Fragments, h, k) >= 3

\* The pass was called on a diff whose second file adds three equal lines in
\* one fragment and two more in the next: the windows at its lines 1 and 2
\* both run into the second fragment, and the second is reported as a
\* repetition of the first.
C21_Witness ==
  /\ uCall = "AntiPatternPass"
  /\ Len(uDs) = 2
  /\ Name(uDs[2]) = <<"d.go">>
  /\ Len(uDs[2].Fragments) = 2
  /\ Len(uDs[2].Fragments[1].Lines) = 3
  /\ \E n \in 1..Len(uOut) :
       /\ uOut[n].File = <<"d.go">> /\ uOut[n].Line = 2
       /\ uOut[n].Message = <<"Near-duplicate code block (also at ", "d.go", ":", "1", ")">>

\* C22 as stated: GenerateCommitMessage returns the empty string when no
\* file is approved, the single line "<verb> <name>" when exactly one file is
\* approved, and adds the lists of approved and rejected files only when
\* several files are approved.
C22_CommitMessageOneLine ==
  LET files == pResult.Files
      appr == {k \in 1..Len(files) :
                 DecisionOf(pResult.Decisions, k - 1) = DecisionApproved}
      one == CHOOSE k \in appr : TRUE
      verb(f) == IF f.IsNew THEN "Add " ELSE IF f.IsDeleted THEN "Remove "
                 ELSE "Update "
  IN pStage = "messaged" =>
       /\ appr = {} => pMsg = <<>>
       /\ Cardinality(appr) = 1 =>
            pMsg = <<<<verb(files[one])>> \o Name(files[one])>>
       /\ Cardinality(appr) > 1 =>
            \E n \in 1..Len(pMsg) : pMsg[n] = <<"Approved files:">>

\* C22, amended: GenerateCommitMessage returns the empty string when no file
\* is approved.  Otherwise the message is a first line, an empty line, the
\* line "Approved files:" and one line "  - <name>" per approved file in file
\* order, followed, if any file is rejected, by an empty line, the line
\* "Rejected files:" and one line "  - <name>" per rejected file; the lists
\* are there for one approved file as for several.  With exactly one approved
\* file the first line is the verb chosen by the file's flag ("Add" if new,
\* "Remove" if deleted, otherwise "Update") followed by the file's name.
C22_CommitMessage ==
  LET files == pResult.Files
      With(d) == {k \in 1..Len(files) : DecisionOf(pResult.Decisions, k - 1) = d}
      appr == With(DecisionApproved)
      rej == With(DecisionRejected)
      one == CHOOSE k \in appr : TRUE
      verb(f) == IF f.IsNew THEN "Add " ELSE IF f.IsDeleted THEN "Remove "
                 ELSE "Update "
      \* the position in files of the n-th member of S
      Nth(S, n) == CHOOSE k \in S : Cardinality({j \in S : j < k}) = n - 1
      na == Cardinality(appr)
      nr == Cardinality(rej)
  IN pStage = "messaged" =>
       /\ appr = {} => pMsg = <<>>
       /\ appr # {} =>
            /\ Len(pMsg) = 3 + na + (IF nr > 0 THEN 2 + nr ELSE 0)
            /\ pMsg[1] # <<>>
            /\ pMsg[2] = <<>> /\ pMsg[3] = <<"Approved files:">>
            /\ \A n \in 1..na :
                 pMsg[3 + n] = <<"  - ">> \o Name(files[Nth(appr, n)])
            /\ nr > 0 =>
                 /\ pMsg[4 + na] = <<>>
                 /\ pMsg[5 + na] = <<"Rejected files:">>
                 /\ \A n \in 1..nr :
                      pMsg[5 + na + n] = <<"  - ">> \o Name(files[Nth(rej, n)])
       /\ na = 1 => pMsg[1] = <<verb(files[one])>> \o Name(files[one])

\* The message was made for a result of two files, the first deleted and
\* approved, the second rejected: "Remove a.go", then both lists.
C22_Witness ==
  /\ pStage = "messaged"
  /\ Len(pResult.Files) = 2
  /\ pResult.Files[1].IsDeleted
  /\ DOMAIN pResult.Decisions = {0, 1}
  /\ pResult.Decisions[0] = DecisionApproved
  /\ pResult.Decisions[1] = DecisionRejected
  /\ pMsg[1] = <<"Remove ", "a.go">>
  /\ Len(pMsg) = 7

\* C23: in every fragment of every file of a DiffSet that Parse returned,
\* the lines with op context or delete are oldLines many and the lines with
\* op context or add are newLines many; so the numbers renderFile gives the
\* lines run, without a gap, from oldPosition to oldPosition + oldLines - 1
\* on the old side and from newPosition to newPosition + newLines - 1 on the
\* new side, and its counters end at oldPosition + oldLines and
\* newPosition + newLines.
C23_FragmentCounts ==
  LET Ops(fr, ops) == {k \in 1..Len(fr.Lines) : fr.Lines[k].Op \in ops}
      Walked(fr, r) ==
        /\ Len(r) = Len(fr.Lines)
        /\ {r[k].OldNum : k \in Ops(fr, {OpContext, OpDelete})}
             = fr.OldPosition..(fr.OldPosition + fr.OldLines - 1)
        /\ {r[k].NewNum : k \in Ops(fr, {OpContext, OpAdd})}
             = fr.NewPosition..(fr.NewPosition + fr.NewLines - 1)
        /\ \A k \in 1..(Len(r) - 1) :
             /\ r[k].OldNum # 0 =>
                  \A j \in (k + 1)..Len(r) : r[j].OldNum # 0 => r[j].OldNum > r[k].OldNum
             /\ r[k].NewNum # 0 =>
                  \A j \in (k + 1)..Len(r) : r[j].NewNum # 0 => r[j].NewNum > r[k].NewNum
      Counted(fr) ==
        /\ Cardinality(Ops(fr, {OpContext, OpDelete})) = fr.OldLines
        /\ Cardinality(Ops(fr, {OpContext, OpAdd})) = fr.NewLines
        /\ Walked(fr, renderLines(fr.Lines, 1, fr.OldPosition, fr.NewPosition))
  IN driver = "ws" =>
       \A c \in DOMAIN wsDs :
         ~wsDs[c].nil =>
           \A i \in 1..Len(wsDs[c].Files) :
             \A h \in 1..Len(wsDs[c].Files[i].Fragments) :
               Counted(wsDs[c].Files[i].Fragments[h])

\* A load_diff was answered with a DiffSet whose first file has two
\* fragments, the first of a kept, a removed and an added line counted 2 and
\* 2.
C23_Witness ==
  /\ wsReq.type = "load_diff" /\ wsReq.ok /\ ~Parse(wsReq.diff).err
  /\ ~wsDs[wsReq.conn].nil
  /\ Len(wsDs[wsReq.conn].Files) >= 1
  /\ Len(wsDs[wsReq.conn].Files[1].Fragments) = 2
  /\ wsDs[wsReq.conn].Files[1].Fragments[1].OldLines = 2
  /\ wsDs[wsReq.conn].Files[1].Fragments[1].NewLines = 2
  /\ [k \in 1..3 |-> wsDs[wsReq.conn].Files[1].Fragments[1].Lines[k].Op]
       = <<OpContext, OpDelete, OpAdd>>

\* C24: before and after every key every cursor is inside its list:
\* fileIndex is an index of a file (0 without files), scrollOffset an index
\* of a rendered line of the active file (0 without lines), traceScroll an
\* index of a trace step shown (0 without steps), and after the key the
\* rendered lines are those of the active file.  Next-file at the last
\* file, previous-file at the first and up at offset 0 leave the cursors
\* where they are (a step from there that moves a cursor is not that key),
\* and every change of the active file puts both scroll offsets at 0.
C24_CursorsInRange ==
  [][LET InList(x, n) == IF n = 0 THEN x = 0 ELSE x \in 0..(n - 1)
         Inside(fi, so, ts, files, ls, steps) ==
           /\ InList(fi, Len(files))
           /\ InList(so, Len(ls))
           /\ InList(ts, Len(steps))
         cursors == <<fileIndex, scrollOffset, traceScroll>>
     IN driver = "tui" =>
          /\ Inside(fileIndex, scrollOffset, traceScroll, diffSet, lines, traceSteps)
          /\ Inside(fileIndex', scrollOffset', traceScroll', diffSet', lines',
                    traceSteps')
          /\ lines' = (IF Len(diffSet') = 0 THEN <<>>
                       ELSE renderFile(diffSet'[fileIndex' + 1]))
          /\ (fileIndex = Len(diffSet) - 1 /\ cursors' # cursors) => ~KeyNextFile
          /\ (fileIndex = 0 /\ cursors' # cursors) => ~KeyPrevFile
          /\ (focusPanel = 0 /\ scrollOffset = 0 /\ cursors' # cursors) => ~KeyUp
          /\ (focusPanel = 1 /\ traceScroll = 0 /\ cursors' # cursors) => ~KeyUp
          /\ fileIndex' # fileIndex => (scrollOffset' = 0 /\ traceScroll' = 0)
    ]_vars

\* The session is on its last file, of several, the trace panel has the
\* focus and both scroll offsets are at the last entry of their lists.
C24_Witness ==
  /\ driver = "tui" /\ ~showSummary
  /\ Len(diffSet) > 1 /\ fileIndex = Len(diffSet) - 1
  /\ focusPanel = 1
  /\ Len(lines) > 1 /\ scrollOffset = Len(lines) - 1
  /\ Len(traceSteps) > 1 /\ traceScroll = Len(traceSteps) - 1

\* C25: Enter in the review view opens the summary view and ends nothing;
\* while the summary is shown no key changes the decision mapping or the
\* active file index; Esc there returns to the review view, so with both as
\* they were when the summary was opened; Enter or quit there ends the
\* session.
C25_SummaryIsReadOnly ==
  [][/\ (KeyFinish /\ ~showSummary) =>
          /\ showSummary' /\ ~quit'
          /\ UNCHANGED <<decisions, fileIndex>>
     /\ (driver = "tui" /\ showSummary) => UNCHANGED <<decisions, fileIndex, diffSet>>
     /\ (KeyEsc /\ showSummary) => (~showSummary' /\ ~quit')
     /\ ((KeyFinish \/ KeyQuit) /\ showSummary) => (quit' /\ showSummary')
     /\ (driver = "tui" /\ showSummary /\ ~showSummary') => KeyEsc
    ]_vars

\* The summary was opened on the second file with a decision recorded, a key
\* was pressed in it, and the session is back in the review view, not ended,
\* on the same file with the same decision.
C25_Witness ==
  /\ driver = "tui" /\ ~quit
  /\ ev.view = "summary" /\ ~showSummary
  /\ fileIndex = 1
  /\ DOMAIN decisions = {0} /\ decisions[0] = DecisionRejected

\* C26: in every state of a session the trace panel is shown only if a trace
\* is loaded and has the focus only if it is shown; the trace key changes
\* nothing when no trace is loaded, and a step that hides the panel leaves
\* the focus on the diff panel.
C26_TracePanel ==
  [][LET Consistent(shown, focus, t) ==
           /\ shown => ~t.nil
           /\ focus \in {0, 1}
           /\ focus = 1 => shown
     IN driver = "tui" =>
          /\ Consistent(showTrace, focusPanel, trace)
          /\ Consistent(showTrace', focusPanel', trace')
          /\ (KeyTrace /\ trace.nil) => UNCHANGED <<showTrace, focusPanel>>
          /\ (KeyFocusSwap /\ ~showTrace) => UNCHANGED <<showTrace, focusPanel>>
          /\ (showTrace /\ ~showTrace') => focusPanel' = 0
    ]_vars

\* A trace is loaded, its panel is shown and has the focus.
C26_Witness ==
  /\ driver = "tui" /\ ~trace.nil
  /\ showTrace /\ focusPanel = 1

\* C27: the early exit of countReferences never changes what BlastRadiusPass
\* reports: for every changed function name, whether a finding is returned
\* and its risk are what the count of all references in the files the walk
\* searches gives when no file is left out by the early exit (more than 15
\* high, more than 5 medium, else none); only the count in the message may
\* be lower than that count.
C27_EarlyExitKeepsOutcome ==
  LET Searched(rf, sourceFile) ==
        /\ ~\E k \in 1..Len(rf.dir) : rf.dir[k] = "vendor/"
        /\ isSourceFile(rf.base)
        /\ rf.dir \o <<rf.base>> # sourceFile
      AllRefs(sourceFile, fn) ==
        SeqSum([k \in 1..Len(uRepo.files) |->
                  IF Searched(uRepo.files[k], sourceFile)
                  THEN Refs(uRepo.files[k], fn) ELSE 0])
      Expected(name, fn) ==
        IF AllRefs(name, fn) > 15
        THEN <<[File |-> name, fn |-> fn, Risk |-> RiskHigh]>>
        ELSE IF AllRefs(name, fn) > 5
        THEN <<[File |-> name, fn |-> fn, Risk |-> RiskMedium]>>
        ELSE <<>>
      OfFile(name, fns) == Flatten([k \in 1..Len(fns) |-> Expected(name, fns[k])])
  IN (uCall = "BlastRadiusPass" /\ uRepo.root # "") =>
       /\ [n \in 1..Len(uOut) |->
             [File |-> uOut[n].File, fn |-> uOut[n].Message[2],
              Risk |-> uOut[n].Risk]]
            = Flatten([i \in 1..Len(uDs) |->
                         OfFile(Name(uDs[i]), extractChangedFunctions(uDs[i]))])
       /\ \A n \in 1..Len(uOut) :
            \E c \in 0..AllRefs(uOut[n].File, uOut[n].Message[2]) :
              uOut[n].Message[4] = ToString(c)

\* The pass was called for a file that adds Login in a tree that names it 21
\* times in the first file walked and 6 times in the last: the walk stops
\* after the first file, the finding is of high risk and its message says
\* 21 where 27 references exist.
C27_Witness ==
  /\ uCall = "BlastRadiusPass"
  /\ uRepo = UnitRepo(21, 6)
  /\ Len(uDs) = 1 /\ ~uDs[1].IsRenamed
  /\ Len(uOut) = 1
  /\ uOut[1].Risk = RiskHigh
  /\ uOut[1].Message[2] = "Login"
  /\ uOut[1].Message[4] = "21"

\* C28: in every state of a session the decision mapping holds only approved
\* and rejected, and only at indices of files.  So for the ReviewResult that
\* Run builds from the session, ApprovedFiles, RejectedFiles and PendingFiles
\* partition Files, every file being in exactly one of them, and their
\* lengths are the three numbers of DecisionCounts.
C28_DecisionsPartitionFiles ==
  LET r == [Files |-> diffSet, Decisions |-> decisions]
      n == Len(diffSet)
      Members(idx) == {idx[k] : k \in 1..Len(idx)}
      Once(idx) == Cardinality(Members(idx)) = Len(idx)
  IN driver = "tui" =>
       /\ DOMAIN decisions \subseteq 0..(n - 1)
       /\ \A i \in DOMAIN decisions :
            decisions[i] \in {DecisionApproved, DecisionRejected}
       /\ Once(ApprovedFiles(r)) /\ Once(RejectedFiles(r)) /\ Once(PendingFiles(r))
       /\ Members(ApprovedFiles(r)) \cup Members(RejectedFiles(r))
            \cup Members(PendingFiles(r)) = 1..n
       /\ Members(ApprovedFiles(r)) \cap Members(RejectedFiles(r)) = {}
       /\ Members(ApprovedFiles(r)) \cap Members(PendingFiles(r)) = {}
       /\ Members(RejectedFiles(r)) \cap Members(PendingFiles(r)) = {}
       /\ Len(ApprovedFiles(r)) = DecisionCounts(diffSet, decisions).approved
       /\ Len(RejectedFiles(r)) = DecisionCounts(diffSet, decisions).rejected
       /\ Len(PendingFiles(r)) = DecisionCounts(diffSet, decisions).pending

\* The session has ended with its first file rejected, its second left
\* pending after an undo or never decided, and its third approved.
C28_Witness ==
  /\ driver = "tui" /\ quit
  /\ Len(diffSet) = 3
  /\ DOMAIN decisions = {0, 2}
  /\ decisions[0] = DecisionRejected /\ decisions[2] = DecisionApproved
  /\ PendingFiles([Files |-> diffSet, Decisions |-> decisions]) = <<2>>

\* C29: a load_diff that parses, on a connection that may hold a diff and
\* decisions already, leaves the session with the new diff, the analysis of
\* the new diff and an empty decision mapping; a finish that is the next
\* message on that connection reports every file of the new diff as pending,
\* so no decision recorded for the diff before is reported for the new one.
C29_ReloadForgetsDecisions ==
  [][LET Loaded(q) == q.type = "load_diff" /\ q.ok /\ ~Parse(q.diff).err
     IN /\ Loaded(wsReq') =>
             /\ wsDs'[wsReq'.conn]
                  = [nil |-> FALSE, Files |-> Parse(wsReq'.diff).Files]
             /\ wsDecisions'[wsReq'.conn] = EmptyMap
             /\ ~wsResults'[wsReq'.conn].nil
             /\ wsResults'[wsReq'.conn].of = Parse(wsReq'.diff).Files
        /\ (Loaded(wsReq) /\ wsReq'.type = "finish" /\ wsReq'.conn = wsReq.conn) =>
             /\ Len(wsOut') = 1 /\ wsOut'[1].type = "summary"
             /\ wsOut'[1].Pending = Len(Parse(wsReq.diff).Files)
             /\ wsOut'[1].Approved = 0 /\ wsOut'[1].Rejected = 0
             /\ Len(wsOut'[1].Files) = Len(Parse(wsReq.diff).Files)
             /\ \A k \in 1..Len(wsOut'[1].Files) :
                  wsOut'[1].Files[k]
                    = [Name |-> Name(Parse(wsReq.diff).Files[k]),
                       Decision |-> "pending"]
    ]_vars

\* A diff of several files was loaded on a connection whose session held a
\* decision for the diff before; the session now holds no decision.
C29_Witness ==
  /\ wsReq.type = "load_diff" /\ wsReq.ok /\ wsReq.held
  /\ ~Parse(wsReq.diff).err
  /\ Len(wsDs[wsReq.conn].Files) = MaxWsFiles
  /\ wsDecisions[wsReq.conn] = EmptyMap
  /\ Len(wsOut) = 2

\* A message ends with the pieces t.
EndsWith(msg, t) ==
  Len(msg) >= Len(t) /\ SubSeq(msg, Len(msg) - Len(t) + 1, Len(msg)) = t

\* A finding was made from the text of an added line of the file name: the
\* message of its pass quotes the trimmed text, or the dependency read off it.
MadeFromLine(f, name, text) ==
  /\ f.File = name
  /\ CASE f.Pass = "security" ->
            \E c \in 1..Len(securityPatterns) :
              f.Message = securityMessage(c, text)
       [] f.Pass = "schema" -> f.Message = <<"DDL statement: ">> \o TrimSpace(text)
       [] f.Pass = "anti_patterns" ->
            /\ f.Message[1] \in {"Broad exception handling: ",
                                 "Commented-out code: ", "Agent left "}
            /\ EndsWith(f.Message, TrimSpace(text))
       [] f.Pass = "deps" ->
            /\ parseDepLine(TrimSpace(text), "go") # ""
            /\ f.Message[Len(f.Message)] = parseDepLine(TrimSpace(text), "go")
       [] OTHER -> FALSE

\* The number renderFile puts in the new-file column of line k of a fragment.
RenderedNewNum(frag, k) ==
  renderLines(frag.Lines, 1, frag.OldPosition, frag.NewPosition)[k].NewNum

\* The added lines of a change set: file, fragment and line index.
AddedLines(files) ==
  UNION {UNION {{<<i, h, k>> : k \in {x \in 1..Len(files[i].Fragments[h].Lines) :
                                       files[i].Fragments[h].Lines[x].Op = OpAdd}} :
                h \in 1..Len(files[i].Fragments)} :
         i \in 1..Len(files)}

\* C30: every finding of the deps, security, schema and anti_patterns passes
\* that is made from an added line (every one but the file-level schema
\* finding and the duplicate-block findings, which quote no line) comes from
\* an added line of its file whose new-file line number it carries: the
\* fragment's NewPosition plus the context and added lines before the line,
\* which is the number renderFile shows for it; and every added line that
\* gave a finding has that finding under its own number, also when added
\* comment lines that the security pass skips come before it.
C30_FindingsCarryNewLineNumber ==
  LET Quoting == {n \in 1..Len(cFindings) :
                    /\ cFindings[n].Pass \in {"deps", "security", "schema",
                                              "anti_patterns"}
                    /\ cFindings[n].Message[1] \notin
                         {"Changes to ", "Near-duplicate code block (also at "}}
      Frag(a) == cDs[a[1]].Fragments[a[2]]
      Text(a) == Frag(a).Lines[a[3]].Line
      Before(a) == Cardinality({x \in 1..(a[3] - 1) :
                                  Frag(a).Lines[x].Op \in {OpAdd, OpContext}})
      From(n, a) == MadeFromLine(cFindings[n], Name(cDs[a[1]]), Text(a))
  IN  /\ \A n \in Quoting :
           \E a \in AddedLines(cDs) :
             /\ From(n, a)
             /\ cFindings[n].Line = Frag(a).NewPosition + Before(a)
             /\ cFindings[n].Line = RenderedNewNum(Frag(a), a[3])
      /\ \A a \in AddedLines(cDs) : \A n \in Quoting :
           From(n, a) =>
             \E m \in Quoting :
               /\ cFindings[m].Pass = cFindings[n].Pass
               /\ cFindings[m].Message = cFindings[n].Message
               /\ cFindings[m].File = cFindings[n].File
               /\ cFindings[m].Line = Frag(a).NewPosition + Before(a)

\* Run has called every pass on pkg/store.go and go.mod: the secret added
\* after an added comment and a context line is reported at line 9, the
\* comment at line 7 by the anti-pattern pass only, and the dependency added
\* after a context line at line 6.
C30_Witness ==
  /\ cStage = "run" /\ cTodo = {} /\ Len(cDs) = 2
  /\ \E n \in 1..Len(cFindings) :
       /\ cFindings[n].Pass = "security"
       /\ cFindings[n].File = <<"pkg/", "store.go">>
       /\ cFindings[n].Line = 9
  /\ \E n \in 1..Len(cFindings) :
       /\ cFindings[n].Pass = "anti_patterns"
       /\ cFindings[n].File = <<"pkg/", "store.go">>
       /\ cFindings[n].Line = 7
  /\ \A n \in 1..Len(cFindings) :
       cFindings[n].Pass = "security" => cFindings[n].Line # 7
  /\ \E n \in 1..Len(cFindings) :
       /\ cFindings[n].Pass = "deps" /\ cFindings[n].Line = 6
====
